---- MODULE Spec2Model ----
(***************************************************************************)
(* A model of the application bundler (tools/bundle.py): the path guard,   *)
(* the reconciliation of the YAML manifest with the build target, the      *)
(* asset transformations, the Markdown content check and the bundle()      *)
(* pipeline.                                                               *)
(*                                                                         *)
(* Each group of operations has its own specification over the shared      *)
(* variables:                                                              *)
(*   SpecPath   AppBundler._validate_path on a file system with symlinks   *)
(*   SpecSync   ApplicationManifest.sync_from on a manifest and a target   *)
(*   SpecAsset  the icon and screenshot transformations on one image       *)
(*   SpecMd     the Markdown content check on one text                     *)
(*   Spec       AppBundler.bundle(), stage by stage, and the cleanup       *)
(*   SpecLife   Main.process from the manifest load to the interpreter's   *)
(*              exit, under weak fairness of the program's steps           *)
(*   SpecBuild  Main.main of tools/build.py: build, upload, error report   *)
(*   SpecApps   AppManager.load_manifest and the registry known_apps       *)
(***************************************************************************)
EXTENDS Integers, Sequences, FiniteSets, TLC

VARIABLES
    pc,         \* control location of the operation under way
    fs,         \* the file system: canonical absolute path -> node
    path,       \* the path handed to _validate_path
    res,        \* outcome of the last operation
    manifest,   \* the ApplicationManifest (self._manifest)
    manifest0,  \* the manifest as it was when the last sync_from began
    fam,        \* the FlipperApplication reconciled against (self._fam_manifest)
    env,        \* BUNDLE_ALLOW_VERSION_MISMATCH in os.environ, or "unset"
    calls,      \* sync_from (load_manifest) calls made so far
    img,        \* the image file read by an asset transformation
    asset,      \* the image it saved, NoImage while none is saved
    doc,        \* the text handed to the Markdown check
    args,       \* the manifest path, the skip_* options of bundle() and the
                \* path of the JSON copy (empty when none is asked for)
    repo,       \* the remote repository named by sourcecode.location
    hist,       \* path -> the guard verdicts and the uses of it, in order
    zip,        \* the archive at self._bundle_path
    tmp,        \* the TemporaryDirectory objects: those whose finalizer is
                \* still attached, and those whose tree cannot be removed
    drv,        \* build.py's Main.main: the exception in flight, the requests
                \* sent and the value returned
    known_apps, \* AppManager.known_apps: appid -> FlipperApplication
    app_manifests   \* the applications the last declaration file declared

vars ==
    <<pc, fs, path, res, manifest, manifest0, fam, env, calls, img, asset, doc,
      args, repo, hist, zip, tmp, drv, known_apps, app_manifests>>

(***************************************************************************)
(* Bounds of the model.                                                    *)
(***************************************************************************)
\* longest path (in components) handed to _validate_path
MaxPathLen == 4
\* symlinks followed while resolving one path
MaxLinkDepth == 2
\* sync_from calls made on one manifest
MaxCalls == 2
\* pixels of an image that the model follows
PixelSamples == 2
\* lines of one block of Markdown text
MaxLines == 2
\* inline elements of the text
MaxInline == 1

(***************************************************************************)
(* The file system.  A path is a sequence of components; the empty         *)
(* sequence is "/".  fs maps the canonical paths that exist to nodes.      *)
(***************************************************************************)
\* Path(self._tmp_dir.name).resolve(): the sandbox root
TmpPath == <<"sb">>

\* self._tmp_path / "code"
CodeDir == TmpPath \o <<"code">>

Dir == [k |-> "dir", to |-> <<>>]

File == [k |-> "file", to |-> <<>>]

Link(target) == [k |-> "link", to |-> target]

\* the kind of the node at canonical path p (os.lstat)
Kind(f, p) == IF p \in DOMAIN f THEN f[p].k ELSE "none"

Parent(p) == IF p = <<>> THEN <<>> ELSE SubSeq(p, 1, Len(p) - 1)

\* PurePath.is_relative_to: a comparison of components, not of characters
IsRelativeTo(p, root) ==
    /\ Len(root) <= Len(p)
    /\ SubSeq(p, 1, Len(root)) = root

\* The kernel's lookup of rest from directory cur (os.stat, following
\* symlinks): every directory on the way has to exist.
RECURSIVE Walk(_, _, _, _)
Walk(f, cur, rest, fuel) ==
    IF rest = <<>> THEN [ok |-> TRUE, at |-> cur]
    ELSE IF Kind(f, cur) # "dir" THEN [ok |-> FALSE, at |-> cur]
    ELSE IF Head(rest) = ".." THEN Walk(f, Parent(cur), Tail(rest), fuel)
    ELSE LET nxt == Append(cur, Head(rest)) IN
         CASE Kind(f, nxt) = "none" -> [ok |-> FALSE, at |-> nxt]
           [] Kind(f, nxt) = "link" ->
                IF fuel = 0 THEN [ok |-> FALSE, at |-> nxt]
                ELSE Walk(f, <<>>, f[nxt].to \o Tail(rest), fuel - 1)
           [] OTHER -> Walk(f, nxt, Tail(rest), fuel)

\* Path.exists()
Exists(f, p) == Walk(f, <<>>, p, MaxLinkDepth).ok

\* Path.resolve() (os.path.realpath, not strict): symlinks are followed,
\* ".." drops the last resolved component, what does not exist is kept.
RECURSIVE RealPath(_, _, _, _)
RealPath(f, cur, rest, fuel) ==
    IF rest = <<>> THEN cur
    ELSE IF Head(rest) = ".." THEN RealPath(f, Parent(cur), Tail(rest), fuel)
    ELSE LET nxt == Append(cur, Head(rest)) IN
         IF Kind(f, nxt) = "link" /\ fuel > 0
         THEN RealPath(f, <<>>, f[nxt].to \o Tail(rest), fuel - 1)
         ELSE RealPath(f, nxt, Tail(rest), fuel)

Resolve(f, p) == RealPath(f, <<>>, p, MaxLinkDepth)

\* a guard that compares the path as written, without resolving it
ValidatePathUnresolved(f, p) ==
    IF ~Exists(f, p) THEN "NotFound"
    ELSE IF ~IsRelativeTo(p, TmpPath) THEN "Traversal"
    ELSE "ok"

\* AppBundler._validate_path: "ok", or the BundlerException it raises
ValidatePath(f, p) ==
    IF ~Exists(f, p) THEN "NotFound"
    ELSE IF ~IsRelativeTo(Resolve(f, p), TmpPath) THEN "Traversal"
    ELSE "ok"

(***************************************************************************)
(* The manifest and the build target.  Manifest fields hold what their     *)
(* dataclass type says (str, or List[str] for targets and screenshots);    *)
(* the target's attributes come from an executed declaration file and      *)
(* carry their Python type: name and fap_icon are Optional and may be None.*)
(***************************************************************************)
Str(s) == [t |-> "str", v |-> s]

NoneV == [t |-> "NoneType", v |-> ""]

List(l) == [t |-> "list", v |-> l]

\* the empty Markdown text: no line, no inline element
NoDoc == [lines |-> <<>>, inl |-> <<>>]

\* the empty string as a description or changelog.  These two fields are
\* Markdown (doc), or "@" followed by a file name (at, ref).
NoText == [at |-> FALSE, ref |-> "", doc |-> NoDoc]

\* ApplicationManifest's field defaults
EmptyManifest ==
    [ sourcecode |-> [type |-> "git", origin |-> "o", commit_sha |-> "", subdir |-> ""],
      name |-> "", id |-> "", author |-> "", version |-> "", icon |-> "",
      category |-> "", short_description |-> "", description |-> NoText,
      changelog |-> NoText, screenshots |-> <<>>, targets |-> <<>> ]

NoManifest == EmptyManifest

\* FlipperApplication's field defaults, for the attributes the bundler reads
DefaultApp ==
    [ appid |-> Str(""), apptype |-> "External", name |-> Str(""),
      targets |-> List(<<"all">>), fap_version |-> <<0, 1>>, fap_icon |-> NoneV,
      fap_category |-> Str(""), fap_description |-> Str(""),
      fap_author |-> Str("") ]

NoApp == DefaultApp

\* the key order of field_map
FieldOrder ==
    << "name", "id", "author", "category", "icon", "short_description",
       "targets", "version" >>

\* field_map: yaml_field -> app_field
AppField(f) ==
    CASE f = "name" -> "name"
      [] f = "id" -> "appid"
      [] f = "author" -> "fap_author"
      [] f = "category" -> "fap_category"
      [] f = "icon" -> "fap_icon"
      [] f = "short_description" -> "fap_description"
      [] f = "targets" -> "targets"
      [] f = "version" -> "fap_version"

\* os.environ.get("BUNDLE_ALLOW_VERSION_MISMATCH", "0")
EnvGet(e) == IF e = "unset" THEN "0" ELSE e

\* a field map in which only the name has to match
MustMatchNameOnly(f, e) == f = "name"

\* a field map whose version flag does not read the environment
MustMatchVersionAlways(f, e) == f \in {"name", "id", "version"}

\* field_map: the must_match flag of a field
MustMatch(f, e) ==
    \/ f \in {"name", "id"}
    \/ f = "version" /\ EnvGet(e) = "0"

Digits == <<"0", "1", "2", "3", "4", "5", "6", "7", "8", "9">>

\* str(n) of a natural number
RECURSIVE IntStr(_)
IntStr(n) ==
    IF n < 10 THEN Digits[n + 1]
    ELSE IntStr(n \div 10) \o Digits[(n % 10) + 1]

\* the version converter: ".".join(map(str, v))
RECURSIVE JoinDot(_)
JoinDot(v) ==
    IF v = <<>> THEN ""
    ELSE IF Len(v) = 1 THEN IntStr(v[1])
    ELSE IntStr(v[1]) \o "." \o JoinDot(Tail(v))

\* getattr(app, app_field), converted when the field has a converter
FamValue(app, f) ==
    IF f = "version" THEN Str(JoinDot(app.fap_version)) ELSE app[AppField(f)]

\* type(current_value) of a manifest field
FieldType(f) == IF f = "targets" THEN "list" ELSE "str"

\* the falsy value of a manifest field's type
EmptyOf(f) == IF f = "targets" THEN <<>> ELSE ""

\* both values are non-empty and differ (line 83), once the types agree
Differ(m, app, f) ==
    /\ FieldType(f) = FamValue(app, f).t
    /\ m[f] # EmptyOf(f)
    /\ FamValue(app, f).v # EmptyOf(f)
    /\ m[f] # FamValue(app, f).v

\* a loop body that merges a differing target list into the manifest's
SyncFieldMerging(m, app, f, e) ==
    IF FieldType(f) # FamValue(app, f).t
    THEN [m |-> m, err |-> "TypeMismatch", warn |-> FALSE]
    ELSE IF Differ(m, app, f)
    THEN IF MustMatch(f, e) THEN [m |-> m, err |-> "Conflict", warn |-> FALSE]
         ELSE IF f = "targets"
         THEN [m |-> [m EXCEPT ![f] = m[f] \o FamValue(app, f).v],
               err |-> "none", warn |-> TRUE]
         ELSE [m |-> m, err |-> "none", warn |-> TRUE]
    ELSE IF m[f] = EmptyOf(f)
    THEN [m |-> [m EXCEPT ![f] = FamValue(app, f).v], err |-> "none", warn |-> FALSE]
    ELSE [m |-> m, err |-> "none", warn |-> FALSE]

\* a loop body that never adopts the target's value
SyncFieldNoAdopt(m, app, f, e) ==
    IF FieldType(f) # FamValue(app, f).t
    THEN [m |-> m, err |-> "TypeMismatch", warn |-> FALSE]
    ELSE IF Differ(m, app, f)
    THEN IF MustMatch(f, e) THEN [m |-> m, err |-> "Conflict", warn |-> FALSE]
         ELSE [m |-> m, err |-> "none", warn |-> TRUE]
    ELSE [m |-> m, err |-> "none", warn |-> FALSE]

\* a loop body that takes the target's value in a soft conflict
SyncFieldOverwrite(m, app, f, e) ==
    IF FieldType(f) # FamValue(app, f).t
    THEN [m |-> m, err |-> "TypeMismatch", warn |-> FALSE]
    ELSE IF Differ(m, app, f)
    THEN IF MustMatch(f, e) THEN [m |-> m, err |-> "Conflict", warn |-> FALSE]
         ELSE [m |-> [m EXCEPT ![f] = FamValue(app, f).v], err |-> "none", warn |-> TRUE]
    ELSE IF m[f] = EmptyOf(f)
    THEN [m |-> [m EXCEPT ![f] = FamValue(app, f).v], err |-> "none", warn |-> FALSE]
    ELSE [m |-> m, err |-> "none", warn |-> FALSE]

\* one iteration of sync_from's loop (lines 73-97)
SyncField(m, app, f, e) ==
    IF FieldType(f) # FamValue(app, f).t
    THEN [m |-> m, err |-> "TypeMismatch", warn |-> FALSE]
    ELSE IF Differ(m, app, f)
    THEN IF MustMatch(f, e) THEN [m |-> m, err |-> "Conflict", warn |-> FALSE]
         ELSE [m |-> m, err |-> "none", warn |-> TRUE]
    ELSE IF m[f] = EmptyOf(f)
    THEN [m |-> [m EXCEPT ![f] = FamValue(app, f).v], err |-> "none", warn |-> FALSE]
    ELSE [m |-> m, err |-> "none", warn |-> FALSE]

\* the loop of sync_from from the i-th field on: the manifest it leaves, the
\* BundlerException it raised and on which field, and the fields it warned on
RECURSIVE SyncFromAt(_, _, _, _, _)
SyncFromAt(m, app, e, i, warned) ==
    IF i > Len(FieldOrder)
    THEN [m |-> m, err |-> "none", at |-> "", warned |-> warned]
    ELSE LET f == FieldOrder[i]
             r == SyncField(m, app, f, e)
         IN  IF r.err # "none"
             THEN [m |-> r.m, err |-> r.err, at |-> f, warned |-> warned]
             ELSE SyncFromAt(r.m, app, e, i + 1,
                             IF r.warn THEN warned \cup {f} ELSE warned)

\* ApplicationManifest.sync_from
SyncFrom(m, app, e) == SyncFromAt(m, app, e, 1, {})

NoRes == [err |-> "none", at |-> "", warned |-> {}]

(***************************************************************************)
(* Images.  An image has a mode, a size and pixels; the model follows      *)
(* PixelSamples of them, each an (r, g, b, a) tuple.  Both transformations *)
(* treat every pixel alike, and NEAREST resampling copies source pixels.   *)
(***************************************************************************)
FLIPPER_SCREEN_SIZE == <<128, 64>>

APP_SCREENSHOT_DOWNSCALE_FACTORS == {4, 8}

FLIPPER_ICON_SIZE == <<10, 10>>

NoImage == [mode |-> "none", w |-> 0, h |-> 0, px |-> <<>>]

\* img.convert("RGBA") when the mode is not RGBA: an RGB image is opaque
ToRGBA(im) ==
    IF im.mode = "RGBA" THEN im
    ELSE [im EXCEPT !.mode = "RGBA",
                    !.px = [i \in DOMAIN im.px |->
                              <<im.px[i][1], im.px[i][2], im.px[i][3], 255>>]]

\* the generator handed to putdata (lines 420-425 and 440-445)
KeyOut(px) ==
    [i \in DOMAIN px |->
        IF SubSeq(px[i], 1, 3) # <<0, 0, 0>> THEN <<255, 255, 255, 0>> ELSE px[i]]

\* an icon check that looks at the width alone
ProcessIconWidthOnly(image) ==
    LET im == ToRGBA(image) IN
    IF im.w # FLIPPER_ICON_SIZE[1]
    THEN [err |-> "IconResolution", out |-> NoImage]
    ELSE [err |-> "none", out |-> [im EXCEPT !.px = KeyOut(im.px)]]

\* AppBundler.__process_icon, once the source path is validated and opened
ProcessIcon(image) ==
    LET im == ToRGBA(image) IN
    IF <<im.w, im.h>> # FLIPPER_ICON_SIZE
    THEN [err |-> "IconResolution", out |-> NoImage]
    ELSE [err |-> "none", out |-> [im EXCEPT !.px = KeyOut(im.px)]]

\* AppBundler.__process_screenshot, once the source path is validated and
\* opened
ProcessScreenshot(image) ==
    LET im == ToRGBA(image)
        downscale_factors == <<im.w \div FLIPPER_SCREEN_SIZE[1],
                               im.h \div FLIPPER_SCREEN_SIZE[2]>>
    IN
    IF \/ downscale_factors[1] # downscale_factors[2]
       \/ downscale_factors[1] \notin APP_SCREENSHOT_DOWNSCALE_FACTORS
    THEN [err |-> "ScreenshotResolution", out |-> NoImage]
    ELSE LET downscaled_resolution == <<im.w \div downscale_factors[1],
                                        im.h \div downscale_factors[2]>>
         IN
         IF downscaled_resolution # FLIPPER_SCREEN_SIZE
         THEN [err |-> "ScreenshotResolution", out |-> NoImage]
         ELSE [err |-> "none",
               out |-> [im EXCEPT !.w = downscaled_resolution[1],
                                  !.h = downscaled_resolution[2],
                                  !.px = KeyOut(im.px)]]

(***************************************************************************)
(* Markdown texts and the content check.  Markdown.convert parses a block  *)
(* with the block processors in priority order, then runs the inline       *)
(* patterns in priority order over the text of the elements built;         *)
(* BasicTextExtension.extendMarkdown replaces some of them by functions    *)
(* that raise.  A text is one block of lines, each of a kind, and the      *)
(* inline elements of its text; an inline element may hold another (the    *)
(* content of an emphasis, the label of a link) and a link or autolink has *)
(* a destination that may contain an entity.                               *)
(***************************************************************************)
\* the inline patterns of Markdown, highest priority first
InlinePatterns ==
    << "backtick", "escape", "reference", "link", "image_link",
       "image_reference", "short_reference", "short_image_ref", "autolink",
       "automail", "linebreak", "html", "entity", "not_strong", "em_strong",
       "em_strong2" >>

\* the patterns whose handleMatch extendMarkdown replaces (lines 157-172)
PatchedInline ==
    { "backtick", "image_link", "image_reference", "short_reference",
      "short_image_ref", "automail", "html", "entity" }

\* the inline syntax on which a pattern's regular expression matches
Triggers(p) ==
    CASE p = "backtick" -> {"code"}
      [] p = "reference" -> {"ref"}
      [] p = "link" -> {"link"}
      [] p \in {"image_link", "image_reference", "short_image_ref"} ->
            {"image", "imgref", "shortimg"}
      [] p = "short_reference" -> {"ref", "shortref"}
      [] p = "autolink" -> {"autolink"}
      [] p = "automail" -> {"automail"}
      [] p = "html" -> {"html"}
      [] p = "entity" -> {"entity"}
      [] p \in {"em_strong", "em_strong2"} -> {"em", "strong", "emstrong"}
      [] OTHER -> {}

\* position of pattern p in the registry
PatternIndex(p) == CHOOSE i \in 1..Len(InlinePatterns) : InlinePatterns[i] = p

\* the kinds of syntax that the i-th pattern finds in the text: what is
\* written at top level, inside an emphasis or in a link's label, and the
\* content of a destination as long as no earlier pattern has turned the
\* link or autolink around it into an element
VisibleAt(inl, i) ==
    {inl[j].k : j \in DOMAIN inl}
    \cup {inl[j].sub : j \in {x \in DOMAIN inl : inl[x].sub # "none"}}
    \cup {inl[j].url : j \in {x \in DOMAIN inl :
                                /\ inl[x].url # "plain"
                                /\ i < PatternIndex(inl[x].k)}}

\* the inline phase from the i-th pattern on: "ok", or the element named by
\* the first replaced handler that gets a match
RECURSIVE InlineFrom(_, _)
InlineFrom(inl, i) ==
    IF i > Len(InlinePatterns) THEN "ok"
    ELSE IF /\ InlinePatterns[i] \in PatchedInline
            /\ Triggers(InlinePatterns[i]) \cap VisibleAt(inl, i) # {}
    THEN InlinePatterns[i]
    ELSE InlineFrom(inl, i + 1)

IsHash(k) == k \in {"hash1", "hash2", "hash3"}

\* len(m.group("level")) of a hash header line
HeaderDepth(k) == CASE k = "hash1" -> 1 [] k = "hash2" -> 2 [] k = "hash3" -> 3

MAX_HEADER_DEPTH == 2

\* index of the first line of b whose kind is in ks, 0 when there is none
FirstOf(b, ks) ==
    IF \E i \in DOMAIN b : b[i] \in ks
    THEN CHOOSE i \in DOMAIN b : b[i] \in ks /\ \A j \in 1..(i - 1) : b[j] \notin ks
    ELSE 0

\* OListProcessor.get_items: where the items of a list block start; a line
\* that is no item continues the item before it
ItemStarts(b) == {i \in DOMAIN b : b[i] \in {"ulist", "olist"}}

\* the lines of the item that starts at line i, marker removed
ItemAt(b, i) ==
    LET nexts == {j \in ItemStarts(b) : j > i}
        last == IF nexts = {} THEN Len(b)
                ELSE (CHOOSE j \in nexts : \A x \in nexts : j <= x) - 1
    IN  <<"text">> \o
        SelectSeq(SubSeq(b, i + 1, last), LAMBDA k : k # "nested")

\* BlockParser.parseBlocks on one block b: the block processors in priority
\* order, those of lines 174-202 replaced
RECURSIVE ParseBlock(_, _)
ParseBlock(b, fuel) ==
    IF b = <<>> \/ fuel = 0 THEN "ok"
    \* "code": the block starts with four spaces
    ELSE IF b[1] \in {"indent", "nested"} THEN "Code Block"
    \* "hashheader": a header line anywhere in the block; the depth is read
    \* only from a header that starts the block
    ELSE IF FirstOf(b, {"hash1", "hash2", "hash3"}) # 0
    THEN LET h == FirstOf(b, {"hash1", "hash2", "hash3"}) IN
         IF IsHash(b[1]) /\ HeaderDepth(b[1]) > MAX_HEADER_DEPTH
         THEN "Header Depth"
         ELSE LET before == ParseBlock(SubSeq(b, 1, h - 1), fuel - 1) IN
              IF before # "ok" THEN before
              ELSE ParseBlock(SubSeq(b, h + 1, Len(b)), fuel - 1)
    \* "setextheader": the second line underlines the first
    ELSE IF Len(b) >= 2 /\ b[2] \in {"eq", "dash"} THEN "Setext Header"
    \* "hr": a rule on any line
    ELSE IF FirstOf(b, {"dash", "stars"}) # 0 THEN "Horizontal Line"
    \* "olist", "ulist": the block starts with an item; every item is parsed
    ELSE IF b[1] \in {"ulist", "olist"}
    THEN LET bad == {i \in ItemStarts(b) : ParseBlock(ItemAt(b, i), fuel - 1) # "ok"}
         IN  IF bad = {} THEN "ok"
             ELSE ParseBlock(ItemAt(b, CHOOSE i \in bad : \A j \in bad : i <= j),
                             fuel - 1)
    \* "quote": a quoted line anywhere in the block
    ELSE IF FirstOf(b, {"quote"}) # 0 THEN "Quote"
    \* "reference": the block starts with a link definition
    ELSE IF b[1] = "refdef" THEN "Reference"
    \* "paragraph"
    ELSE "ok"

\* the text of a link definition left in a paragraph has a bracket pair
InlineOf(d) ==
    IF \E i \in DOMAIN d.lines : d.lines[i] = "refdef"
    THEN Append(d.inl, [k |-> "shortref", sub |-> "none", url |-> "plain"])
    ELSE d.inl

\* Markdown(extensions=[BasicTextExtension()]).convert(text): "ok", or the
\* element named by the exception raised
Convert(d) ==
    IF ParseBlock(d.lines, Len(d.lines) + 1) # "ok"
    THEN ParseBlock(d.lines, Len(d.lines) + 1)
    ELSE InlineFrom(InlineOf(d), 1)

\* AppBundler.__check_markdown: any exception becomes a BundlerException
CheckMarkdown(d) == IF Convert(d) = "ok" THEN "none" ELSE "Markdown"

\* the variables of the asset transformations and of the content check,
\* when none is modelled
AssetIdle ==
    /\ img = NoImage
    /\ asset = NoImage
    /\ doc = NoDoc

\* the variables of the pipeline, when bundle() is not modelled
PipeIdle ==
    /\ args = [manifest_yaml_path |-> <<>>, skip_lint |-> FALSE,
               skip_build |-> FALSE, skip_source_code |-> FALSE, json |-> <<>>]
    /\ repo = [tree |-> <<>>, commits |-> {}, lint |-> TRUE, build |-> TRUE]
    /\ hist = <<>>
    /\ zip = [made |-> FALSE, names |-> {}]
    /\ tmp = [attached |-> {}, stuck |-> {}]

\* build.py's driver before it has done anything
NoRun == [exc |-> "none", caught |-> "none", built |-> FALSE, stdout |-> "",
          stderr |-> "", run_id |-> 0, uploads |-> 0, reports |-> <<>>,
          ret |-> -1]

\* the variables of the build driver and of the registry of declarations,
\* when neither is modelled
ToolsIdle ==
    /\ drv = NoRun
    /\ known_apps = <<>>
    /\ app_manifests = <<>>

(***************************************************************************)
(* SpecPath: _validate_path applied to any path of a small file system.    *)
(***************************************************************************)
\* where the symlink code/l of the fetched tree may point
LinkTargets ==
    { <<"out">>, <<"out", "f">>, <<"sb", "code", "f">>, <<"sb">>,
      <<"gone">>, <<"sb", "code", "l2">> }

\* the sandbox with a fetched tree holding a file, a symlink l and a second
\* symlink l2 that leaves the sandbox
TreeWith(target) ==
    (<<>> :> Dir) @@ (<<"sb">> :> Dir) @@ (<<"sb", "code">> :> Dir)
    @@ (<<"sb", "code", "f">> :> File)
    @@ (<<"sb", "code", "l">> :> Link(target))
    @@ (<<"sb", "code", "l2">> :> Link(<<"out">>))
    @@ (<<"out">> :> Dir) @@ (<<"out", "f">> :> File)

Components == {"sb", "code", "f", "l", "out", ".."}

RECURSIVE PathsUpTo(_)
PathsUpTo(n) ==
    IF n = 0 THEN {<<>>}
    ELSE LET shorter == PathsUpTo(n - 1) IN
         shorter \cup {Append(p, c) : p \in shorter, c \in Components}

\* the variables of the reconciliation, when no reconciliation is modelled
SyncIdle ==
    /\ manifest = NoManifest
    /\ manifest0 = NoManifest
    /\ fam = NoApp
    /\ env = "unset"
    /\ calls = 0

InitPath ==
    /\ pc = "validate"
    /\ fs \in {TreeWith(t) : t \in LinkTargets}
    /\ path \in PathsUpTo(MaxPathLen)
    /\ res = NoRes
    /\ SyncIdle
    /\ AssetIdle
    /\ PipeIdle
    /\ ToolsIdle

ValidatePathCall ==
    /\ pc = "validate"
    /\ res' = [NoRes EXCEPT !.err = ValidatePath(fs, path)]
    /\ pc' = "validated"
    /\ UNCHANGED <<fs, path, manifest, manifest0, fam, env, calls, img, asset, doc,
                   args, repo, hist, zip, tmp,
                   drv, known_apps, app_manifests>>

NextPath == ValidatePathCall

SpecPath == InitPath /\ [][NextPath]_vars

\* the place the kernel reaches for the path handed in
Reached == Walk(fs, <<>>, path, MaxLinkDepth)

\* C1: _validate_path returns without error exactly for the paths that exist
\* and whose real location lies in the sandbox root; it raises for every
\* other path.
C1_ValidateIffInside ==
    pc = "validated" =>
        (res.err = "ok" <=> (Reached.ok /\ IsRelativeTo(Reached.at, TmpPath)))

\* a path written under the root that a symlink or ".." takes out of it
C1_Witness ==
    /\ pc = "validated"
    /\ res.err = "Traversal"
    /\ IsRelativeTo(path, TmpPath)
    /\ Reached.ok

(***************************************************************************)
(* SpecSync: sync_from applied, once and again, to every combination of a  *)
(* manifest value and a target value per field: empty or not, equal or     *)
(* not, None for the Optional attributes.                                  *)
(***************************************************************************)
\* <<manifest value, target value>> pairs
NameCases ==
    { <<"", Str("")>>, <<"", Str("App")>>, <<"App", Str("")>>,
      <<"App", Str("App")>>, <<"App", Str("Other")>>, <<"", NoneV>> }

IdCases ==
    { <<"", Str("app")>>, <<"app", Str("")>>, <<"app", Str("app")>>,
      <<"app", Str("other")>> }

AuthorCases ==
    { <<"", Str("")>>, <<"", Str("fam")>>, <<"me", Str("me")>>,
      <<"me", Str("fam")>> }

CategoryCases == { <<"", Str("Tools")>>, <<"Games", Str("Tools")>> }

IconCases == { <<"", Str("i.png")>>, <<"j.png", Str("i.png")>>, <<"", NoneV>> }

DescriptionCases == { <<"", Str("d")>>, <<"e", Str("")>> }

TargetsCases ==
    { <<<<>>, List(<<"all">>)>>, <<<<"f7">>, List(<<"all">>)>>,
      <<<<"f7">>, List(<<>>)>> }

\* <<manifest version, fap_version>>
VersionCases ==
    { <<"0.1", <<0, 1>>>>, <<"1.0", <<0, 1>>>>, <<"1.0", <<>>>>,
      <<"", <<1, 12>>>> }

EnvValues == {"unset", "0", "1"}

InitSync ==
    /\ pc = "sync"
    /\ \E n \in NameCases, i \in IdCases, a \in AuthorCases, c \in CategoryCases,
          ic \in IconCases, d \in DescriptionCases, t \in TargetsCases,
          v \in VersionCases :
          /\ manifest = [EmptyManifest EXCEPT
                            !.name = n[1], !.id = i[1], !.author = a[1],
                            !.category = c[1], !.icon = ic[1],
                            !.short_description = d[1], !.targets = t[1],
                            !.version = v[1],
                            !.sourcecode.commit_sha =
                                "0123456789abcdef0123456789abcdef01234567",
                            !.description = [NoText EXCEPT !.at = TRUE,
                                                           !.ref = "README.md"],
                            !.screenshots = <<"shot.png">>]
          /\ fam = [DefaultApp EXCEPT
                            !.name = n[2], !.appid = i[2], !.fap_author = a[2],
                            !.fap_category = c[2], !.fap_icon = ic[2],
                            !.fap_description = d[2], !.targets = t[2],
                            !.fap_version = v[2]]
    /\ manifest0 = manifest
    /\ env \in EnvValues
    /\ calls = 0
    /\ res = NoRes
    /\ fs = <<>>
    /\ path = <<>>
    /\ AssetIdle
    /\ PipeIdle
    /\ ToolsIdle

\* self._manifest.sync_from(self._fam_manifest): the manifest is changed in
\* place, so what the loop assigned before raising stays assigned
SyncFromCall ==
    /\ pc \in {"sync", "synced"}
    /\ calls < MaxCalls
    /\ LET r == SyncFrom(manifest, fam, env) IN
        /\ manifest' = r.m
        /\ res' = [err |-> r.err, at |-> r.at, warned |-> r.warned]
        /\ pc' = IF r.err = "none" THEN "synced" ELSE "failed"
    /\ manifest0' = manifest
    /\ calls' = calls + 1
    /\ UNCHANGED <<fs, path, fam, env, img, asset, doc, args, repo, hist, zip, tmp,
                   drv, known_apps, app_manifests>>

NextSync == SyncFromCall

SpecSync == InitSync /\ [][NextSync]_vars

\* a sync_from call has returned or raised
Called == pc \in {"synced", "failed"}

\* C4: a must-match field (name, id, and version unless the override is set)
\* whose two values are non-empty and differ makes sync_from raise; a field
\* that is not must-match does not make it raise and keeps the manifest's
\* value.
C4_ConflictRule ==
    Called =>
        \A i \in 1..Len(FieldOrder) :
            LET f == FieldOrder[i] IN
            Differ(manifest0, fam, f) =>
                IF f \in {"name", "id"} \/ (f = "version" /\ env \in {"unset", "0"})
                THEN pc = "failed"
                ELSE res.at # f /\ manifest[f] = manifest0[f]

\* both kinds of conflict met: a soft one kept with a warning, and a call
\* that raised on a must-match field
C4_Witness ==
    /\ pc = "failed"
    /\ res.err = "Conflict"
    /\ res.at = "version"
    /\ Differ(manifest0, fam, "author")
    /\ manifest.author = manifest0.author
    /\ "author" \in res.warned

\* C5: reconciling an already reconciled manifest against the same target
\* succeeds and changes no field.
C5_Idempotent ==
    calls >= 2 => (pc = "synced" /\ manifest = manifest0)

\* a second call on a manifest the first call had to fill
C5_Witness ==
    /\ calls = 2
    /\ pc = "synced"
    /\ manifest.author = "fam"
    /\ manifest.targets = <<"f7">>
    /\ "targets" \in res.warned

\* C6: when reconciliation completes without error, the manifest's name and
\* id are non-empty and equal the target's name and appid.
C6_NameIdMatchTarget ==
    pc = "synced" =>
        /\ manifest.name # "" /\ manifest.name = fam.name.v
        /\ manifest.id # "" /\ manifest.id = fam.appid.v

\* C7: every field that was empty in the manifest holds, after a successful
\* sync_from, the target's value: its attribute, the version tuple joined
\* with dots.
C7_GapFilled ==
    pc = "synced" =>
        /\ \A f \in {"name", "id", "author", "category", "icon", "short_description"} :
              manifest0[f] = "" => manifest[f] = fam[AppField(f)].v
        /\ manifest0.targets = <<>> => manifest.targets = fam.targets.v
        /\ manifest0.version = "" =>
              fam.fap_version = <<1, 12>> /\ manifest.version = "1.12"

\* an empty author and an empty version filled from the target
C7_Witness ==
    /\ pc = "synced"
    /\ calls = 1
    /\ manifest0.author = "" /\ manifest.author = "fam"
    /\ manifest0.version = "" /\ manifest.version = "1.12"

\* C27: sync_from changes no field that was non-empty before the call and
\* no field outside its field map (sourcecode, description, changelog,
\* screenshots); when it fails on a field, the empty fields before it in the
\* order name, id, author, category, icon, short_description, targets,
\* version hold the target's value and the fields from it on are untouched.
C27_SyncFrame ==
    Called =>
        /\ \A i \in 1..Len(FieldOrder) :
              manifest0[FieldOrder[i]] # EmptyOf(FieldOrder[i]) =>
                  manifest[FieldOrder[i]] = manifest0[FieldOrder[i]]
        /\ \A f \in {"sourcecode", "description", "changelog", "screenshots"} :
              manifest[f] = manifest0[f]
        /\ FieldOrder = << "name", "id", "author", "category", "icon",
                           "short_description", "targets", "version" >>
        /\ pc = "failed" =>
              \E k \in 1..Len(FieldOrder) :
                  /\ res.at = FieldOrder[k]
                  /\ \A i \in 1..(k - 1) :
                        manifest0[FieldOrder[i]] = EmptyOf(FieldOrder[i]) =>
                            manifest[FieldOrder[i]] = FamValue(fam, FieldOrder[i]).v
                  /\ \A i \in k..Len(FieldOrder) :
                        manifest[FieldOrder[i]] = manifest0[FieldOrder[i]]

\* a call that failed on the icon after it had filled the author, with the
\* empty short_description and version after it left empty
C27_Witness ==
    /\ pc = "failed"
    /\ res.at = "icon"
    /\ manifest0.author = "" /\ manifest.author = "fam"
    /\ manifest0.short_description = "" /\ manifest.short_description = ""
    /\ fam.fap_description = Str("d")
    /\ manifest0.version = "" /\ manifest.version = ""
    /\ manifest.screenshots = <<"shot.png">>

\* the manifest's version and the target's, joined with ".", are both
\* non-empty and differ
VersionsDiffer ==
    /\ manifest0.version # ""
    /\ JoinDot(fam.fap_version) # ""
    /\ manifest0.version # JoinDot(fam.fap_version)

\* C20: a manifest version that differs from the target's makes sync_from
\* fail while BUNDLE_ALLOW_VERSION_MISMATCH is unset (or holds its default
\* "0"); with the override set the call does not fail on the version, warns
\* and keeps the manifest's version; a differing name or id makes it fail
\* whatever the override.
C20_VersionPolicy ==
    Called =>
        /\ VersionsDiffer /\ env \in {"unset", "0"} => pc = "failed"
        /\ VersionsDiffer /\ env \notin {"unset", "0"} =>
              /\ res.at # "version"
              /\ manifest.version = manifest0.version
              /\ pc = "synced" => "version" \in res.warned
        /\ (\E f \in {"name", "id"} : Differ(manifest0, fam, f)) =>
              pc = "failed" /\ res.at \in {"name", "id"}

\* the override set: a call that returned with the differing version kept
\* and warned about
C20_Witness ==
    /\ pc = "synced"
    /\ env = "1"
    /\ VersionsDiffer
    /\ manifest.version = "1.0"
    /\ "version" \in res.warned

(***************************************************************************)
(* SpecAsset: one image handed to __process_icon or __process_screenshot.  *)
(***************************************************************************)
Palette ==
    { <<0, 0, 0, 255>>, <<255, 255, 255, 255>>, <<255, 0, 0, 255>>,
      <<1, 1, 1, 255>>, <<0, 0, 0, 128>>, <<255, 255, 255, 0>> }

Widths == {9, 10, 11, 128, 256, 512, 513, 515, 516, 1024, 1031, 1032}

Heights == {9, 10, 11, 64, 128, 256, 257, 259, 260, 512, 519, 520, 1024}

\* the images Image.open may return
Images ==
    { im \in [mode : {"RGBA", "RGB"}, w : Widths, h : Heights,
              px : [1..PixelSamples -> Palette]] :
        im.mode = "RGB" => \A i \in 1..PixelSamples : im.px[i][4] = 255 }

InitAsset ==
    /\ pc = "asset"
    /\ img \in Images
    /\ asset = NoImage
    /\ doc = NoDoc
    /\ res = NoRes
    /\ fs = <<>>
    /\ path = <<>>
    /\ SyncIdle
    /\ PipeIdle
    /\ ToolsIdle

\* self.__process_icon(src_icon_path, icon_path)
ProcessIconCall ==
    /\ pc = "asset"
    /\ LET r == ProcessIcon(img) IN
        /\ res' = [NoRes EXCEPT !.err = r.err]
        /\ asset' = r.out
    /\ pc' = "icon_done"
    /\ UNCHANGED <<fs, path, manifest, manifest0, fam, env, calls, img, doc,
                   args, repo, hist, zip, tmp,
                   drv, known_apps, app_manifests>>

\* self.__process_screenshot(self._code_dir / screenshot, new_screenshot_path)
ProcessScreenshotCall ==
    /\ pc = "asset"
    /\ LET r == ProcessScreenshot(img) IN
        /\ res' = [NoRes EXCEPT !.err = r.err]
        /\ asset' = r.out
    /\ pc' = "shot_done"
    /\ UNCHANGED <<fs, path, manifest, manifest0, fam, env, calls, img, doc,
                   args, repo, hist, zip, tmp,
                   drv, known_apps, app_manifests>>

NextAsset == ProcessIconCall \/ ProcessScreenshotCall

SpecAsset == InitAsset /\ [][NextAsset]_vars

\* the colour of a pixel once the image is RGBA
Rgb(i) == SubSeq(ToRGBA(img).px[i], 1, 3)

\* C8 as claimed: an icon is accepted only if it is 10x10 and every pixel
\* is pure black or pure white; any other size or colour is rejected and no
\* icon is written.
C8_IconMonochromeOnly ==
    pc = "icon_done" =>
        /\ res.err = "none" =>
              /\ img.w = 10 /\ img.h = 10
              /\ \A i \in 1..PixelSamples : Rgb(i) \in {<<0, 0, 0>>, <<255, 255, 255>>}
        /\ res.err # "none" => asset = NoImage

\* C8 as amended: an icon is accepted if and only if it is exactly 10x10;
\* any other size is rejected and no icon is written.  Colours are not
\* checked: an accepted icon is saved with every pixel whose colour is not
\* (0, 0, 0) rewritten to the transparent (255, 255, 255, 0) and every other
\* pixel kept.
C8_IconSizeOnly ==
    pc = "icon_done" =>
        /\ res.err = "none" <=> (img.w = 10 /\ img.h = 10)
        /\ res.err # "none" => asset = NoImage
        /\ res.err = "none" =>
              /\ asset.w = 10 /\ asset.h = 10
              /\ \A i \in 1..PixelSamples :
                    asset.px[i] = IF Rgb(i) = <<0, 0, 0>> THEN ToRGBA(img).px[i]
                                  ELSE <<255, 255, 255, 0>>

\* a 10x10 icon with a red pixel is accepted, the pixel made transparent
C8_Witness ==
    /\ pc = "icon_done"
    /\ res.err = "none"
    /\ img.px[1] = <<255, 0, 0, 255>>
    /\ asset.px[1] = <<255, 255, 255, 0>>

\* C9: a screenshot of size (w, h) is accepted if and only if w = 128k and
\* h = 64k for k = 4 or k = 8; an accepted screenshot is saved at 128x64.
C9_ScreenshotExactMultiple ==
    pc = "shot_done" =>
        /\ res.err = "none" <=>
              \E k \in {4, 8} : img.w = 128 * k /\ img.h = 64 * k
        /\ res.err = "none" => (asset.w = 128 /\ asset.h = 64)

\* C24: in every icon and screenshot that is saved, each pixel is fully
\* transparent or the opaque black (0, 0, 0, 255), whatever the colours and
\* the alpha channel of the source; in a screenshot a black pixel is forced
\* to opaque black and a pixel brighter than near-black is transparent.
C24_BilevelOutput ==
    pc \in {"icon_done", "shot_done"} /\ res.err = "none" =>
        \A i \in 1..PixelSamples :
            /\ asset.px[i][4] = 0 \/ asset.px[i] = <<0, 0, 0, 255>>
            /\ pc = "shot_done" =>
                  /\ Rgb(i) = <<0, 0, 0>> => asset.px[i] = <<0, 0, 0, 255>>
                  /\ Rgb(i) \in {<<255, 255, 255>>, <<255, 0, 0>>} => asset.px[i][4] = 0

(***************************************************************************)
(* SpecMd: the content check applied to one text.                          *)
(***************************************************************************)
LineKinds ==
    { "text", "indent", "hash1", "hash2", "hash3", "eq", "dash", "stars",
      "ulist", "olist", "nested", "quote", "refdef" }

AtomKinds ==
    { "word", "code", "image", "imgref", "shortimg", "ref", "shortref",
      "automail", "html", "entity" }

\* the inline elements: plain ones, those that hold another one, and links
\* and autolinks with their destination
Tokens ==
    [k : AtomKinds, sub : {"none"}, url : {"plain"}]
    \cup [k : {"em", "strong", "emstrong"}, sub : AtomKinds \cup {"em", "strong"},
          url : {"plain"}]
    \cup [k : {"link"}, sub : AtomKinds, url : {"plain", "entity"}]
    \cup [k : {"autolink"}, sub : {"none"}, url : {"plain", "entity"}]

RECURSIVE SeqsUpTo(_, _)
SeqsUpTo(S, n) ==
    IF n = 0 THEN {<<>>}
    ELSE LET shorter == SeqsUpTo(S, n - 1) IN
         shorter \cup {Append(q, x) : q \in shorter, x \in S}

Word == [k |-> "word", sub |-> "none", url |-> "plain"]

\* texts: any block of lines around a plain or bold word, and any inline
\* elements in a paragraph, a list item or a header
Docs ==
    [lines : SeqsUpTo(LineKinds, MaxLines) \ {<<>>},
     inl : {<<Word>>, <<[k |-> "strong", sub |-> "word", url |-> "plain"]>>}]
    \cup [lines : {<<"text">>, <<"ulist">>, <<"hash2">>},
          inl : SeqsUpTo(Tokens, MaxInline) \ {<<>>}]

InitMd ==
    /\ pc = "md"
    /\ doc \in Docs
    /\ img = NoImage
    /\ asset = NoImage
    /\ res = NoRes
    /\ fs = <<>>
    /\ path = <<>>
    /\ SyncIdle
    /\ PipeIdle
    /\ ToolsIdle

\* self.__check_markdown(text)
CheckMarkdownCall ==
    /\ pc = "md"
    /\ res' = [NoRes EXCEPT !.err = CheckMarkdown(doc), !.at = Convert(doc)]
    /\ pc' = "md_done"
    /\ UNCHANGED <<fs, path, manifest, manifest0, fam, env, calls, img, asset, doc,
                   args, repo, hist, zip, tmp,
                   drv, known_apps, app_manifests>>

NextMd == CheckMarkdownCall

SpecMd == InitMd /\ [][NextMd]_vars

\* every kind of inline syntax written in the text, nested or in a
\* destination
Written ==
    {doc.inl[j].k : j \in DOMAIN doc.inl}
    \cup {doc.inl[j].sub : j \in DOMAIN doc.inl}
    \cup {doc.inl[j].url : j \in DOMAIN doc.inl}

\* the text holds a construct the claim names as rejected
HasForbidden ==
    \/ Written \cap {"code", "image", "imgref", "shortimg", "html", "entity"} # {}
    \/ \E i \in 1..(Len(doc.lines) - 1) :
          doc.lines[i] = "text" /\ doc.lines[i + 1] \in {"eq", "dash"}
    \/ doc.lines[1] \in {"indent", "nested"}
    \/ \E i \in DOMAIN doc.lines : doc.lines[i] \in {"stars", "quote"}
    \/ doc.lines[1] = "dash"

\* the text is made of paragraphs, lists and emphasis only
OnlyBasic ==
    /\ \A i \in DOMAIN doc.lines : doc.lines[i] \in {"text", "ulist", "olist", "nested"}
    /\ doc.lines[1] # "nested"
    /\ Written \subseteq {"word", "em", "strong", "emstrong", "none", "plain"}

\* C10: the content check fails for every text that contains an inline code
\* span, an image, raw HTML, an HTML entity, a setext header, an indented
\* code block, a horizontal rule or a blockquote, and succeeds for every
\* text made only of paragraphs, lists and emphasis.
C10_ContentRules ==
    pc = "md_done" =>
        /\ HasForbidden => res.err # "none"
        /\ OnlyBasic => res.err = "none"

\* C11: the content check fails for every text that holds a hyperlink in
\* any of its forms: an inline link [text](url), a reference link
\* [text][ref] or [ref], an autolink <http://...> or a mail autolink.
C11_HyperlinksRejected ==
    pc = "md_done" =>
        (Written \cap {"link", "ref", "shortref", "autolink", "automail"} # {}
            => res.err # "none")

\* C19: the content check fails for every text with a hash header of level
\* 3 or more on any of its lines, at the start of a block or after other
\* lines of it, and accepts headers of level 1 and 2.
C19_HeaderDepth ==
    pc = "md_done" =>
        /\ (\E i \in DOMAIN doc.lines : doc.lines[i] = "hash3") => res.err # "none"
        /\ (/\ \A i \in DOMAIN doc.lines : doc.lines[i] \in {"text", "hash1", "hash2"}
            /\ Written \subseteq {"word", "em", "strong", "emstrong", "none", "plain"})
           => res.err = "none"

(***************************************************************************)
(* The bundle() pipeline.  The bundler works in two temporary directories: *)
(* the sandbox root (TmpPath), where "assets" is made at construction and  *)
(* the fetched code is moved to, and the directory the repository is       *)
(* cloned into.  Files hold a content; hist notes, path by path, every     *)
(* verdict of _validate_path and every use of the path, in program order.  *)
(* A handler's intermediate values are named by x \in {e}, or by With.     *)
(***************************************************************************)
\* F applied to the value of v
With(v, F(_)) == CHOOSE r \in {F(b) : b \in {v}} : TRUE

\* Path(self._tmp_code_dir.name).resolve()
TmpCodePath == <<"cl">>

\* self._tmp_path / "assets"
AssetsDir == TmpPath \o <<"assets">>

\* a regular file holding content c = [t |-> kind, v |-> value]
FileOf(c) == [k |-> "file", to |-> <<>>, c |-> c]

\* base / s for the path strings of the model: an absolute s replaces base
JoinPath(base, s) ==
    CASE s = "" -> base
      [] s = "/out/f" -> <<"out", "f">>
      [] s = "/out" -> <<"out">>
      [] s = "../../out/f" -> base \o <<"..", "..", "out", "f">>
      [] s = "../out" -> base \o <<"..", "out">>
      [] OTHER -> base \o <<s>>

\* os.path.splitext(s)[1] for the file names of the model
Ext(s) == IF s \in {"shot.png", "bad.png", "icon.png"} THEN ".png" ELSE ""

\* name.startswith(".") for the file names of the model
IsHidden(name) == name \in {".git", ".gitignore"}

\* "/".join(parts): PurePath.as_posix of a relative path
RECURSIVE AsPosix(_)
AsPosix(q) ==
    IF q = <<>> THEN "."
    ELSE IF Len(q) = 1 THEN q[1]
    ELSE q[1] \o "/" \o AsPosix(Tail(q))

\* the history with one more event on path p
Logged(h, p, op, role) ==
    LET e == [op |-> op, role |-> role] IN
    IF p \in DOMAIN h THEN [h EXCEPT ![p] = Append(@, e)] ELSE h @@ (p :> <<e>>)

\* self._validate_path(p): the BundlerException raised, if any, and the
\* history with the verdict
Guard(f, h, p, role) ==
    LET v == ValidatePath(f, p) IN
    [err |-> IF v = "ok" THEN "none" ELSE v,
     h |-> Logged(h, p, IF v = "ok" THEN "accept" ELSE "reject", role)]

\* opening and reading p as content of kind t: the content, or the
\* exception of open() or of the reader
ReadFile(f, p, t) ==
    LET at == Walk(f, <<>>, p, MaxLinkDepth) IN
    IF ~at.ok THEN [err |-> "FileNotFoundError", v |-> <<>>]
    ELSE IF Kind(f, at.at) # "file" THEN [err |-> "IsADirectoryError", v |-> <<>>]
    ELSE IF f[at.at].c.t # t
    THEN [err |-> CASE t = "image" -> "UnidentifiedImageError"
                    [] t = "text" -> "UnicodeDecodeError"
                    [] OTHER -> "FlipperManifestException",
          v |-> <<>>]
    ELSE [err |-> "none", v |-> f[at.at].c.v]

\* Repo.clone_from(origin, _tmp_code_path): the tree of the repository
\* under the clone root
Cloned(f, tree) ==
    [p \in DOMAIN f \cup {TmpCodePath \o q : q \in DOMAIN tree} |->
        IF p \in DOMAIN f THEN f[p]
        ELSE tree[SubSeq(p, Len(TmpCodePath) + 1, Len(p))]]

\* a fetch that moves whatever the subdir names, with no containment test
FetchSourcesAnySubdir ==
    /\ pc = "fetch"
    /\ \E cloned \in {Cloned(fs, repo.tree)} :
       \E repo_code \in {JoinPath(TmpCodePath, manifest.sourcecode.subdir)} :
       \E src \in {Resolve(cloned, repo_code)} :
       \E h1 \in {Logged(hist, TmpCodePath, "clone", "origin")} :
       \E r \in {
            LET location_data == manifest.sourcecode
                moved == [p \in {q \in DOMAIN cloned : ~IsRelativeTo(q, src)}
                                \cup {CodeDir \o SubSeq(q, Len(src) + 1, Len(q)) :
                                        q \in {x \in DOMAIN cloned : IsRelativeTo(x, src)}} |->
                             IF IsRelativeTo(p, CodeDir)
                             THEN cloned[src \o SubSeq(p, Len(CodeDir) + 1, Len(p))]
                             ELSE cloned[p]]
            IN  IF location_data.type # "git"
                THEN [err |-> "UnknownType", f |-> fs, h |-> hist]
                ELSE IF location_data.commit_sha = ""
                THEN [err |-> "NoCommitSha", f |-> cloned, h |-> h1]
                ELSE IF Len(location_data.commit_sha) # 40
                THEN [err |-> "CommitShaLength", f |-> cloned, h |-> h1]
                ELSE IF location_data.commit_sha \notin repo.commits
                THEN [err |-> "GitCommandError", f |-> cloned, h |-> h1]
                ELSE IF ~Exists(cloned, repo_code)
                THEN [err |-> "FileNotFoundError", f |-> cloned, h |-> h1]
                ELSE [err |-> "none", f |-> moved, h |-> h1] } :
           /\ fs' = r.f
           /\ hist' = r.h
           /\ res' = [NoRes EXCEPT !.err = r.err]
           /\ pc' = IF r.err # "none" THEN "failed"
                    ELSE IF ~args.skip_lint THEN "lint"
                    ELSE IF ~args.skip_build THEN "build" ELSE "update"
    /\ UNCHANGED <<path, manifest, manifest0, fam, env, calls, img, asset, doc,
                   args, repo, zip, tmp,
                   drv, known_apps, app_manifests>>

\* AppBundler._fetch_sources, and the stage bundle() runs after it.  The
\* subtree moved is the one the subdir resolves to.
FetchSources ==
    /\ pc = "fetch"
    /\ \E cloned \in {Cloned(fs, repo.tree)} :
       \E repo_code \in {JoinPath(TmpCodePath, manifest.sourcecode.subdir)} :
       \E src \in {Resolve(cloned, repo_code)} :
       \E h1 \in {Logged(hist, TmpCodePath, "clone", "origin")} :
       \E r \in {
            LET location_data == manifest.sourcecode
                moved == [p \in {q \in DOMAIN cloned : ~IsRelativeTo(q, src)}
                                \cup {CodeDir \o SubSeq(q, Len(src) + 1, Len(q)) :
                                        q \in {x \in DOMAIN cloned : IsRelativeTo(x, src)}} |->
                             IF IsRelativeTo(p, CodeDir)
                             THEN cloned[src \o SubSeq(p, Len(CodeDir) + 1, Len(p))]
                             ELSE cloned[p]]
            IN  IF location_data.type # "git"
                THEN [err |-> "UnknownType", f |-> fs, h |-> hist]
                ELSE IF location_data.commit_sha = ""
                THEN [err |-> "NoCommitSha", f |-> cloned, h |-> h1]
                ELSE IF Len(location_data.commit_sha) # 40
                THEN [err |-> "CommitShaLength", f |-> cloned, h |-> h1]
                ELSE IF location_data.commit_sha \notin repo.commits
                THEN [err |-> "GitCommandError", f |-> cloned, h |-> h1]
                ELSE IF ~IsRelativeTo(src, TmpCodePath)
                THEN [err |-> "CodeTraversal", f |-> cloned, h |-> h1]
                ELSE IF ~Exists(cloned, repo_code)
                THEN [err |-> "FileNotFoundError", f |-> cloned, h |-> h1]
                ELSE [err |-> "none", f |-> moved, h |-> h1] } :
           /\ fs' = r.f
           /\ hist' = r.h
           /\ res' = [NoRes EXCEPT !.err = r.err]
           /\ pc' = IF r.err # "none" THEN "failed"
                    ELSE IF ~args.skip_lint THEN "lint"
                    ELSE IF ~args.skip_build THEN "build" ELSE "update"
    /\ UNCHANGED <<path, manifest, manifest0, fam, env, calls, img, asset, doc,
                   args, repo, zip, tmp,
                   drv, known_apps, app_manifests>>

\* subprocess.check_output(cmd, cwd=...): the streams of the tool held by
\* the output attribute of the CalledProcessError it raises.  Only stdout
\* is piped; stderr goes to the bundler's own stderr.
CheckOutput == "stdout"

\* a lint stage whose failure does not stop the run
LintSourcesUnchecked ==
    /\ pc = "lint"
    /\ res' = IF repo.lint THEN NoRes
              ELSE [NoRes EXCEPT !.err = "LintFailed", !.at = CheckOutput]
    /\ hist' = Logged(hist, CodeDir, "run", "lint")
    /\ pc' = IF ~args.skip_build THEN "build" ELSE "update"
    /\ UNCHANGED <<fs, path, manifest, manifest0, fam, env, calls, img, asset, doc,
                   args, repo, zip, tmp,
                   drv, known_apps, app_manifests>>

\* AppBundler._lint_sources: the tool is run in the code directory; the
\* message of the error holds e.output
LintSources ==
    /\ pc = "lint"
    /\ res' = IF repo.lint THEN NoRes
              ELSE [NoRes EXCEPT !.err = "LintFailed", !.at = CheckOutput]
    /\ hist' = Logged(hist, CodeDir, "run", "lint")
    /\ pc' = IF ~repo.lint THEN "failed"
             ELSE IF ~args.skip_build THEN "build" ELSE "update"
    /\ UNCHANGED <<fs, path, manifest, manifest0, fam, env, calls, img, asset, doc,
                   args, repo, zip, tmp,
                   drv, known_apps, app_manifests>>

\* AppBundler._build_sources: a build that succeeds leaves its artifacts in
\* "dist" under the code directory
BuildSources ==
    /\ pc = "build"
    /\ res' = IF repo.build THEN NoRes
              ELSE [NoRes EXCEPT !.err = "BuildFailed", !.at = CheckOutput]
    /\ hist' = Logged(hist, CodeDir, "run", "build")
    /\ fs' = IF repo.build
             THEN (CodeDir \o <<"dist">> :> Dir)
                  @@ (CodeDir \o <<"dist", "app.fap">> :> FileOf([t |-> "bin", v |-> <<>>]))
                  @@ fs
             ELSE fs
    /\ pc' = IF repo.build THEN "update" ELSE "failed"
    /\ UNCHANGED <<path, manifest, manifest0, fam, env, calls, img, asset, doc,
                   args, repo, zip, tmp,
                   drv, known_apps, app_manifests>>

\* a discovery that takes the first EXTERNAL application declared
UpdateManifestFirstExternal ==
    /\ pc = "update"
    /\ \E app_manifest_path \in {CodeDir \o <<"application.fam">>} :
       \E loaded \in {ReadFile(fs, app_manifest_path, "fam")} :
       \E r \in {
            LET IsExternal(app) == app.apptype = "External"
                known_ext_apps == SelectSeq(loaded.v, IsExternal)
                chosen == known_ext_apps[1]
                Raised(e) == [app |-> fam, m |-> manifest, err |-> e, at |-> "",
                              warned |-> {}]
            IN  IF ~Exists(fs, app_manifest_path) THEN Raised("NoApplicationManifest")
                ELSE IF loaded.err # "none" THEN Raised(loaded.err)
                ELSE IF Len(known_ext_apps) = 0 THEN Raised("NoExternalApps")
                ELSE [app |-> chosen] @@ SyncFrom(manifest, chosen, env) } :
           /\ hist' = IF Exists(fs, app_manifest_path)
                      THEN Logged(hist, app_manifest_path, "open", "fam") ELSE hist
           /\ fam' = r.app
           /\ manifest0' = manifest
           /\ manifest' = r.m
           /\ res' = [err |-> r.err, at |-> r.at, warned |-> r.warned]
           /\ pc' = IF r.err = "none" THEN "check_path" ELSE "failed"
    /\ UNCHANGED <<fs, path, env, calls, img, asset, doc, args, repo, zip, tmp,
                   drv, known_apps, app_manifests>>

\* AppBundler._update_manifest_from_fap: the outcome r holds the target
\* selected (app) and what sync_from returns
UpdateManifestFromFap ==
    /\ pc = "update"
    /\ \E app_manifest_path \in {CodeDir \o <<"application.fam">>} :
       \E loaded \in {ReadFile(fs, app_manifest_path, "fam")} :
       \E r \in {
            LET IsExternal(app) == app.apptype = "External"
                known_ext_apps == SelectSeq(loaded.v, IsExternal)
                matching == {i \in DOMAIN known_ext_apps :
                               known_ext_apps[i].appid = Str(manifest.id)}
                chosen == IF Len(known_ext_apps) = 1 THEN known_ext_apps[1]
                          ELSE known_ext_apps[CHOOSE i \in matching :
                                                 \A j \in matching : i <= j]
                Raised(e) == [app |-> fam, m |-> manifest, err |-> e, at |-> "",
                              warned |-> {}]
            IN  IF ~Exists(fs, app_manifest_path) THEN Raised("NoApplicationManifest")
                ELSE IF loaded.err # "none" THEN Raised(loaded.err)
                ELSE IF Len(known_ext_apps) = 0 THEN Raised("NoExternalApps")
                ELSE IF Len(known_ext_apps) > 1 /\ matching = {}
                THEN Raised("MultipleApps")
                ELSE [app |-> chosen] @@ SyncFrom(manifest, chosen, env) } :
           /\ hist' = IF Exists(fs, app_manifest_path)
                      THEN Logged(hist, app_manifest_path, "open", "fam") ELSE hist
           /\ fam' = r.app
           /\ manifest0' = manifest
           /\ manifest' = r.m
           /\ res' = [err |-> r.err, at |-> r.at, warned |-> r.warned]
           /\ pc' = IF r.err = "none" THEN "check_path" ELSE "failed"
    /\ UNCHANGED <<fs, path, env, calls, img, asset, doc, args, repo, zip, tmp,
                   drv, known_apps, app_manifests>>

\* AppBundler._check_manifest_path
CheckManifestPath ==
    /\ pc = "check_path"
    /\ LET parts == args.manifest_yaml_path
           hits == {i \in DOMAIN parts : parts[i] = "applications"}
           app_folder_index == CHOOSE i \in hits : \A j \in hits : i <= j
           err == IF hits = {} THEN "none"
                  ELSE IF app_folder_index + 3 > Len(parts) THEN "InvalidManifestPath"
                  ELSE IF parts[app_folder_index + 3] # "manifest.yml"
                  THEN "ManifestName"
                  ELSE IF manifest.id # parts[app_folder_index + 2] THEN "PathAppId"
                  ELSE IF manifest.category # parts[app_folder_index + 1]
                  THEN "PathCategory"
                  ELSE "none"
       IN  /\ res' = [NoRes EXCEPT !.err = err]
           /\ pc' = IF err = "none" THEN "includes" ELSE "failed"
    /\ UNCHANGED <<fs, path, manifest, manifest0, fam, env, calls, img, asset, doc,
                   args, repo, hist, zip, tmp,
                   drv, known_apps, app_manifests>>

\* an expansion that opens the named file without asking the guard
IncludeFieldUnguarded(st, attr_name) ==
    LET attr_value == st.m[attr_name]
        file_path == JoinPath(CodeDir, attr_value.ref)
        h1 == Logged(st.h, file_path, "open", "include")
        read == ReadFile(st.f, file_path, "text")
    IN  IF st.err # "none" \/ ~attr_value.at THEN st
        ELSE IF read.err # "none" THEN [st EXCEPT !.h = h1, !.err = read.err]
        ELSE [st EXCEPT !.h = h1, !.m[attr_name] = [NoText EXCEPT !.doc = read.v]]

\* the body of the loop of _process_includes (lines 374-380) on the state
\* st = [f, h, m, err] of the file system, the history, the manifest and
\* the exception raised so far
IncludeField(st, attr_name) ==
    LET attr_value == st.m[attr_name]
        file_path == JoinPath(CodeDir, attr_value.ref)
        guard == Guard(st.f, st.h, file_path, "include")
        h1 == Logged(guard.h, file_path, "open", "include")
        read == ReadFile(st.f, file_path, "text")
    IN  IF st.err # "none" \/ ~attr_value.at THEN st
        ELSE IF guard.err # "none" THEN [st EXCEPT !.h = guard.h, !.err = guard.err]
        ELSE IF read.err # "none" THEN [st EXCEPT !.h = h1, !.err = read.err]
        ELSE [st EXCEPT !.h = h1, !.m[attr_name] = [NoText EXCEPT !.doc = read.v]]

\* AppBundler._process_includes
ProcessIncludes ==
    /\ pc = "includes"
    /\ \E st0 \in {[f |-> fs, h |-> hist, m |-> manifest, err |-> "none"]} :
       \E st1 \in {IncludeField(st0, "changelog")} :
       \E st \in {IncludeField(st1, "description")} :
           /\ manifest' = st.m
           /\ hist' = st.h
           /\ res' = [NoRes EXCEPT !.err = st.err]
           /\ pc' = IF st.err = "none" THEN "assets" ELSE "failed"
    /\ UNCHANGED <<fs, path, manifest0, fam, env, calls, img, asset, doc,
                   args, repo, zip, tmp,
                   drv, known_apps, app_manifests>>

\* a transformation (__process_icon or __process_screenshot, named by role)
\* of src into dst, followed by self._rel_path(dst), on the state
\* st = [f, h, err, rel]: rel gets the relative path returned
Transform(st, src, dst, role) ==
    With(Guard(st.f, st.h, src, role), LAMBDA guard :
    With(Logged(guard.h, src, "open", role), LAMBDA h1 :
    With(ReadFile(st.f, src, "image"), LAMBDA read :
        IF guard.err # "none" THEN [st EXCEPT !.h = guard.h, !.err = guard.err]
        ELSE IF read.err # "none" THEN [st EXCEPT !.h = h1, !.err = read.err]
        ELSE
    With(IF role = "icon" THEN ProcessIcon(read.v) ELSE ProcessScreenshot(read.v),
         LAMBDA made :
        IF made.err # "none" THEN [st EXCEPT !.h = h1, !.err = made.err]
        ELSE
    With((dst :> FileOf([t |-> "image", v |-> made.out])) @@ st.f, LAMBDA f1 :
    With(Guard(f1, h1, dst, "asset"), LAMBDA guard2 :
        IF guard2.err # "none"
        THEN [st EXCEPT !.f = f1, !.h = guard2.h, !.err = guard2.err]
        ELSE [st EXCEPT !.f = f1, !.h = Logged(guard2.h, dst, "record", "asset"),
                        !.rel = Append(@, AsPosix(SubSeq(dst, Len(TmpPath) + 1,
                                                          Len(dst))))]))))))

\* the loop of _process_assets (lines 458-463) from index i on
RECURSIVE Screenshots(_, _, _)
Screenshots(st, screenshots, i) ==
    IF st.err # "none" \/ i >= Len(screenshots) THEN st
    ELSE With(Transform(st, JoinPath(CodeDir, screenshots[i + 1]),
                        AssetsDir \o <<"screenshots",
                                      IntStr(i) \o Ext(screenshots[i + 1])>>,
                        "screenshot"),
              LAMBDA next : Screenshots(next, screenshots, i + 1))

\* an asset stage that accepts a manifest with no screenshot
ProcessAssetsAllowEmpty ==
    /\ pc = "assets"
    /\ \E src_icon_path \in {JoinPath(CodeDir, fam.fap_icon.v)} :
       \E guard \in {Guard(fs, hist, src_icon_path, "icon")} :
       \E st0 \in {[f |-> fs, h |-> guard.h, err |-> "none", rel |-> <<>>]} :
       \E st1 \in {IF fam.fap_icon.t # "str"
                   THEN [st0 EXCEPT !.h = hist, !.err = "TypeError"]
                   ELSE IF guard.err # "none" THEN [st0 EXCEPT !.err = guard.err]
                   ELSE Transform(st0, src_icon_path, AssetsDir \o <<"icon.png">>,
                                  "icon")} :
       \E start \in {[st1 EXCEPT !.f = (AssetsDir \o <<"screenshots">> :> Dir) @@ st1.f,
                                 !.rel = <<>>]} :
       \E st2 \in {IF st1.err # "none" THEN st1
                   ELSE Screenshots(start, manifest.screenshots, 0)} :
       \E st \in {st2} :
           /\ fs' = st.f
           /\ hist' = st.h
           /\ manifest' =
                IF st1.err # "none" THEN manifest
                ELSE IF st.err # "none" THEN [manifest EXCEPT !.icon = st1.rel[1]]
                ELSE [manifest EXCEPT !.icon = st1.rel[1], !.screenshots = st.rel]
           /\ res' = [NoRes EXCEPT !.err = st.err]
           /\ pc' = IF st.err = "none" THEN "values" ELSE "failed"
    /\ UNCHANGED <<path, manifest0, fam, env, calls, img, asset, doc, args, repo,
                   zip, tmp,
                   drv, known_apps, app_manifests>>

\* an asset stage that takes the icon the manifest names
ProcessAssetsManifestIcon ==
    /\ pc = "assets"
    /\ \E src_icon_path \in {JoinPath(CodeDir, manifest.icon)} :
       \E guard \in {Guard(fs, hist, src_icon_path, "icon")} :
       \E st0 \in {[f |-> fs, h |-> guard.h, err |-> "none", rel |-> <<>>]} :
       \E st1 \in {IF fam.fap_icon.t # "str"
                   THEN [st0 EXCEPT !.h = hist, !.err = "TypeError"]
                   ELSE IF guard.err # "none" THEN [st0 EXCEPT !.err = guard.err]
                   ELSE Transform(st0, src_icon_path, AssetsDir \o <<"icon.png">>,
                                  "icon")} :
       \E start \in {[st1 EXCEPT !.f = (AssetsDir \o <<"screenshots">> :> Dir) @@ st1.f,
                                 !.rel = <<>>]} :
       \E st2 \in {IF st1.err # "none" THEN st1
                   ELSE Screenshots(start, manifest.screenshots, 0)} :
       \E st \in {IF st2.err = "none" /\ st2.rel = <<>>
                  THEN [st2 EXCEPT !.err = "NoScreenshots"] ELSE st2} :
           /\ fs' = st.f
           /\ hist' = st.h
           /\ manifest' =
                IF st1.err # "none" THEN manifest
                ELSE IF st.err # "none" THEN [manifest EXCEPT !.icon = st1.rel[1]]
                ELSE [manifest EXCEPT !.icon = st1.rel[1], !.screenshots = st.rel]
           /\ res' = [NoRes EXCEPT !.err = st.err]
           /\ pc' = IF st.err = "none" THEN "values" ELSE "failed"
    /\ UNCHANGED <<path, manifest0, fam, env, calls, img, asset, doc, args, repo,
                   zip, tmp,
                   drv, known_apps, app_manifests>>

\* AppBundler._process_assets: st1 is the state after lines 449-453, st2
\* after the loop of lines 455-463
ProcessAssets ==
    /\ pc = "assets"
    /\ \E src_icon_path \in {JoinPath(CodeDir, fam.fap_icon.v)} :
       \E guard \in {Guard(fs, hist, src_icon_path, "icon")} :
       \E st0 \in {[f |-> fs, h |-> guard.h, err |-> "none", rel |-> <<>>]} :
       \E st1 \in {IF fam.fap_icon.t # "str"
                   THEN [st0 EXCEPT !.h = hist, !.err = "TypeError"]
                   ELSE IF guard.err # "none" THEN [st0 EXCEPT !.err = guard.err]
                   ELSE Transform(st0, src_icon_path, AssetsDir \o <<"icon.png">>,
                                  "icon")} :
       \E start \in {[st1 EXCEPT !.f = (AssetsDir \o <<"screenshots">> :> Dir) @@ st1.f,
                                 !.rel = <<>>]} :
       \E st2 \in {IF st1.err # "none" THEN st1
                   ELSE Screenshots(start, manifest.screenshots, 0)} :
       \E st \in {IF st2.err = "none" /\ st2.rel = <<>>
                  THEN [st2 EXCEPT !.err = "NoScreenshots"] ELSE st2} :
           /\ fs' = st.f
           /\ hist' = st.h
           /\ manifest' =
                IF st1.err # "none" THEN manifest
                ELSE IF st.err # "none" THEN [manifest EXCEPT !.icon = st1.rel[1]]
                ELSE [manifest EXCEPT !.icon = st1.rel[1], !.screenshots = st.rel]
           /\ res' = [NoRes EXCEPT !.err = st.err]
           /\ pc' = IF st.err = "none" THEN "values" ELSE "failed"
    /\ UNCHANGED <<path, manifest0, fam, env, calls, img, asset, doc, args, repo,
                   zip, tmp,
                   drv, known_apps, app_manifests>>

\* the characters of the identifiers of the model
Chars(s) ==
    CASE s = "" -> <<>>
      [] s = "app" -> <<"a", "p", "p">>
      [] s = "other" -> <<"o", "t", "h", "e", "r">>
      [] s = "my-app" -> <<"m", "y", "-", "a", "p", "p">>
      [] s = "My-App" -> <<"M", "y", "-", "A", "p", "p">>
      [] s = "app\n" -> <<"a", "p", "p", "\n">>

\* APP_ID_REGEX.match(s): "^[a-z0-9_]+$", where "$" also matches before a
\* newline that ends the string
MatchesAppId(s) ==
    LET cs == Chars(s)
        body == IF cs # <<>> /\ cs[Len(cs)] = "\n"
                THEN SubSeq(cs, 1, Len(cs) - 1) ELSE cs
    IN  /\ body # <<>>
        /\ \A i \in DOMAIN body :
              body[i] \in { "a", "b", "c", "d", "e", "f", "g", "h", "i", "j", "k",
                            "l", "m", "n", "o", "p", "q", "r", "s", "t", "u", "v",
                            "w", "x", "y", "z", "0", "1", "2", "3", "4", "5", "6",
                            "7", "8", "9", "_" }

\* a value check that runs the grammar check on the changelog only
CheckChangelogOnly ==
    /\ pc = "values"
    /\ LET errors == (IF ~MatchesAppId(manifest.id) THEN {"id"} ELSE {})
                     \cup (IF manifest.changelog = NoText THEN {"changelog"} ELSE {})
                     \cup (IF manifest.short_description = ""
                           THEN {"short_description"} ELSE {})
                     \cup (IF manifest.description = NoText THEN {"description"} ELSE {})
           err == IF errors # {} THEN "ManifestValues"
                  ELSE CheckMarkdown(manifest.changelog.doc)
       IN  /\ res' = [NoRes EXCEPT !.err = err]
           /\ pc' = IF err = "none" THEN "package" ELSE "failed"
    /\ UNCHANGED <<fs, path, manifest, manifest0, fam, env, calls, img, asset, doc,
                   args, repo, hist, zip, tmp,
                   drv, known_apps, app_manifests>>

\* AppBundler._check_manifest_values
CheckManifestValues ==
    /\ pc = "values"
    /\ LET errors == (IF ~MatchesAppId(manifest.id) THEN {"id"} ELSE {})
                     \cup (IF manifest.changelog = NoText THEN {"changelog"} ELSE {})
                     \cup (IF manifest.short_description = ""
                           THEN {"short_description"} ELSE {})
                     \cup (IF manifest.description = NoText THEN {"description"} ELSE {})
           err == IF errors # {} THEN "ManifestValues"
                  ELSE IF CheckMarkdown(manifest.changelog.doc) # "none"
                  THEN "Markdown"
                  ELSE CheckMarkdown(manifest.description.doc)
       IN  /\ res' = [NoRes EXCEPT !.err = err]
           /\ pc' = IF err = "none" THEN "package" ELSE "failed"
    /\ UNCHANGED <<fs, path, manifest, manifest0, fam, env, calls, img, asset, doc,
                   args, repo, hist, zip, tmp,
                   drv, known_apps, app_manifests>>

\* a walk that prunes hidden folders only
WalkFilesKeepDist(f) ==
    { p \in DOMAIN f :
        /\ IsRelativeTo(p, TmpPath) /\ Len(p) > Len(TmpPath)
        /\ \A i \in (Len(TmpPath) + 1)..(Len(p) - 1) : ~IsHidden(p[i])
        /\ ~IsHidden(p[Len(p)])
        /\ \/ Kind(f, p) = "file"
           \/ /\ Kind(f, p) = "link"
              /\ ~(Exists(f, p) /\ Kind(f, Resolve(f, p)) = "dir") }

\* the files os.walk(self._tmp_path) hands to the loop of lines 556-562:
\* those below no folder that is hidden or called "dist", hidden files left
\* out.  Symlinks are not followed; one that leads to a directory is listed
\* as a folder, any other as a file.
WalkFiles(f) ==
    { p \in DOMAIN f :
        /\ IsRelativeTo(p, TmpPath) /\ Len(p) > Len(TmpPath)
        /\ \A i \in (Len(TmpPath) + 1)..(Len(p) - 1) :
              ~IsHidden(p[i]) /\ p[i] # "dist"
        /\ ~IsHidden(p[Len(p)])
        /\ \/ Kind(f, p) = "file"
           \/ /\ Kind(f, p) = "link"
              /\ ~(Exists(f, p) /\ Kind(f, Resolve(f, p)) = "dir") }

\* AppBundler._build_package.  The walk meets the files in the order of the
\* directory listings: when the guard rejects one, any of the others may
\* already be in the archive.
BuildPackage ==
    /\ pc = "package"
    /\ \E f1 \in {(TmpPath \o <<"manifest.yml">> :> FileOf([t |-> "yaml", v |-> manifest]))
                  @@ fs} :
       \E f2 \in {IF args.skip_source_code
                  THEN [p \in {q \in DOMAIN f1 : ~IsRelativeTo(q, CodeDir)} |-> f1[p]]
                  ELSE f1} :
       \E files \in {WalkFiles(f2)} :
       \E bad \in {{p \in files : ValidatePath(f2, p) # "ok"}} :
       \E written \in IF bad = {} THEN {files} ELSE SUBSET (files \ bad) :
       \E rejected \in IF bad = {} THEN {{}} ELSE {{b} : b \in bad} :
           /\ fs' = f2
           /\ zip' = [made |-> TRUE,
                      names |-> {AsPosix(SubSeq(p, Len(TmpPath) + 1, Len(p))) :
                                   p \in written}]
           /\ hist' = [p \in DOMAIN hist \cup written \cup rejected |->
                         (IF p \in DOMAIN hist THEN hist[p] ELSE <<>>)
                         \o (IF p \in written
                             THEN << [op |-> "accept", role |-> "walk"],
                                     [op |-> "zipwrite", role |-> "walk"] >>
                             ELSE IF p \in rejected
                             THEN << [op |-> "reject", role |-> "walk"] >>
                             ELSE <<>>)]
           /\ res' = [NoRes EXCEPT !.err =
                        IF bad = {} THEN "none"
                        ELSE ValidatePath(f2, CHOOSE b \in rejected : TRUE)]
           /\ pc' = IF bad # {} THEN "failed"
                    ELSE IF args.json # <<>> THEN "json" ELSE "done"
    /\ UNCHANGED <<path, manifest, manifest0, fam, env, calls, img, asset, doc,
                   args, repo, tmp,
                   drv, known_apps, app_manifests>>

\* AppBundler.write_manifest_json, called by Main.process inside the with
\* statement when --json-manifest is given: open(manifest_path, "w") raises
\* when the folder is missing or the path is a directory
WriteManifestJson ==
    /\ pc = "json"
    /\ \E manifest_path \in {args.json} :
       \E err \in {IF \/ ~Exists(fs, Parent(manifest_path))
                      \/ Kind(fs, Resolve(fs, Parent(manifest_path))) # "dir"
                   THEN "FileNotFoundError"
                   ELSE IF /\ Exists(fs, manifest_path)
                           /\ Kind(fs, Resolve(fs, manifest_path)) = "dir"
                   THEN "IsADirectoryError"
                   ELSE "none"} :
          /\ fs' = IF err = "none"
                   THEN (manifest_path :> FileOf([t |-> "json", v |-> manifest])) @@ fs
                   ELSE fs
          /\ res' = [NoRes EXCEPT !.err = err]
          /\ pc' = IF err = "none" THEN "done" ELSE "failed"
    /\ UNCHANGED <<path, manifest, manifest0, fam, env, calls, img, asset, doc,
                   args, repo, hist, zip, tmp,
                   drv, known_apps, app_manifests>>

\* the file system once the trees of the temporary directories named in
\* gone are removed
Removed(f, gone) ==
    [p \in {q \in DOMAIN f :
              /\ "_tmp_dir" \in gone => ~IsRelativeTo(q, TmpPath)
              /\ "_tmp_code_dir" \in gone => ~IsRelativeTo(q, TmpCodePath)} |-> f[p]]

\* AppBundler.__exit__ -> cleanup, whether the body of the with statement
\* returned or raised.  TemporaryDirectory.cleanup() detaches the finalizer
\* and then removes the tree; when the removal of the first tree raises,
\* the second cleanup() is not reached and the error replaces the
\* exception in flight.
Cleanup ==
    /\ pc \in {"done", "failed"}
    /\ \E called \in {IF "_tmp_dir" \in tmp.stuck
                       THEN {"_tmp_dir"} ELSE {"_tmp_dir", "_tmp_code_dir"}} :
          /\ fs' = Removed(fs, called \ tmp.stuck)
          /\ tmp' = [tmp EXCEPT !.attached = @ \ called]
          /\ res' = IF called \cap tmp.stuck = {} THEN res
                    ELSE [res EXCEPT !.err = "OSError"]
    /\ pc' = "closed"
    /\ UNCHANGED <<path, manifest, manifest0, fam, env, calls, img, asset, doc,
                   args, repo, hist, zip,
                   drv, known_apps, app_manifests>>

\* the finalizers of the TemporaryDirectory objects: once the AppBundler
\* is unreachable (its constructor raised, or the with statement is left)
\* each finalizer still attached removes its tree, at the latest when the
\* interpreter exits
Finalize ==
    /\ pc \in {"closed", "init_failed"}
    /\ tmp.attached # {}
    /\ fs' = Removed(fs, tmp.attached \ tmp.stuck)
    /\ tmp' = [tmp EXCEPT !.attached = {}]
    /\ UNCHANGED <<pc, path, res, manifest, manifest0, fam, env, calls, img, asset,
                   doc, args, repo, hist, zip,
                   drv, known_apps, app_manifests>>

(***************************************************************************)
(* Spec: bundle() on a well-formed submission and on submissions that      *)
(* differ from it in their source location and options, in the paths they  *)
(* name, or in the build targets the repository declares.                  *)
(***************************************************************************)
\* a manifest.yml that passes every stage
BaseManifest ==
    [EmptyManifest EXCEPT
        !.sourcecode.commit_sha = "0123456789abcdef0123456789abcdef01234567",
        !.name = "App", !.id = "app", !.version = "0.1", !.category = "Tools",
        !.short_description = "d", !.screenshots = <<"shot.png">>,
        !.description = [NoText EXCEPT !.doc = [lines |-> <<"text">>, inl |-> <<Word>>]],
        !.changelog = [NoText EXCEPT !.doc = [lines |-> <<"ulist">>, inl |-> <<Word>>]]]

\* the App() declaration that goes with it
BaseApp ==
    [DefaultApp EXCEPT !.appid = Str("app"), !.name = Str("App"),
                       !.fap_icon = Str("icon.png"), !.fap_category = Str("Tools"),
                       !.fap_description = Str("d"), !.fap_author = Str("fam")]

\* a repository: the application's files under prefix, application.fam
\* declaring apps, a symlink l to target, README.md holding readme
AppTree(prefix, apps, target, readme) ==
    LET px == <<<<0, 0, 0, 255>>, <<255, 0, 0, 255>>>> IN
    (<<>> :> Dir) @@ (<<".git">> :> Dir)
    @@ (<<".git", "HEAD">> :> FileOf([t |-> "bin", v |-> <<>>]))
    @@ (<<".gitignore">> :> FileOf([t |-> "bin", v |-> <<>>]))
    @@ (<<"sub">> :> Dir)
    @@ (prefix \o <<"application.fam">> :> FileOf([t |-> "fam", v |-> apps]))
    @@ (prefix \o <<"icon.png">> :>
          FileOf([t |-> "image", v |-> [mode |-> "RGBA", w |-> 10, h |-> 10, px |-> px]]))
    @@ (prefix \o <<"shot.png">> :>
          FileOf([t |-> "image", v |-> [mode |-> "RGB", w |-> 512, h |-> 256, px |-> px]]))
    @@ (prefix \o <<"README.md">> :> FileOf([t |-> "text", v |-> readme]))
    @@ (prefix \o <<"l">> :> Link(target))

\* the state __init__ leaves: both temporary directories and "assets"
\* made, the manifest loaded
Constructed(m, a, r, e, stuck) ==
    /\ pc = "fetch"
    /\ manifest = m
    /\ manifest0 = m
    /\ fam = NoApp
    /\ env = e
    /\ calls = 0
    /\ args = a
    /\ repo = r
    /\ hist = <<>>
    /\ zip = [made |-> FALSE, names |-> {}]
    /\ tmp = [attached |-> {"_tmp_dir", "_tmp_code_dir"}, stuck |-> stuck]
    /\ res = NoRes
    /\ path = <<>>
    /\ fs = (<<>> :> Dir) @@ (TmpPath :> Dir) @@ (AssetsDir :> Dir)
            @@ (TmpCodePath :> Dir) @@ (<<"out">> :> Dir)
            @@ (<<"out", "f">> :> FileOf([t |-> "text", v |-> NoDoc]))
    /\ AssetIdle
    /\ ToolsIdle

Init ==
    LET sha == BaseManifest.sourcecode.commit_sha
        plain == BaseManifest.description
        yml == <<"manifest.yml">>
        Args(p, l, b, s) == [manifest_yaml_path |-> p, skip_lint |-> l,
                             skip_build |-> b, skip_source_code |-> s,
                             json |-> <<>>]
        \* commits: what git resolves to a commit, ids and names of tags
        Repo(t, l, b) == [tree |-> t, commits |-> {sha, "catalog-release-branch-of-the-app-v1.0.0"},
                          lint |-> l, build |-> b]
        inside == CodeDir \o <<"README.md">>
    IN
    \* the source location and the options
    \/ \E type \in {"git", "hg"},
          commit_sha \in {"", "0123456789abcdef0123456789abcdef0123456", sha,
                          "0123456789abcdef0123456789abcdef012345678",
                          "zzzzzzzzzzzzzzzzzzzzzzzzzzzzzzzzzzzzzzzz",
                          "catalog-release-branch-of-the-app-v1.0.0"},
          subdir \in {"", "sub", "../out", "nodir", "l", "/out"},
          prefix \in {<<>>, <<"sub">>},
          l \in BOOLEAN, b \in BOOLEAN, s \in BOOLEAN,
          lint \in BOOLEAN, build \in BOOLEAN :
          Constructed([BaseManifest EXCEPT !.sourcecode.type = type,
                                           !.sourcecode.commit_sha = commit_sha,
                                           !.sourcecode.subdir = subdir],
                      Args(yml, l, b, s),
                      Repo(AppTree(prefix, <<BaseApp>>, inside, plain.doc), lint, build),
                      "unset", {})
    \* the paths named by the manifest and by the target
    \/ \E fap_icon \in {"icon.png", "l", "../../out/f", "/out/f", "shot.png", "",
                        "missing.png"},
          icon \in {"", "missing.png", "shot.png"},
          screenshots \in {<<>>, <<"shot.png">>, <<"l">>, <<"shot.png", "../../out/f">>,
                           <<"shot.png", "icon.png">>, <<"l", "shot.png">>},
          description \in {plain, NoText,
                           [NoText EXCEPT !.doc = [lines |-> <<"quote">>, inl |-> <<Word>>]],
                           [NoText EXCEPT !.at = TRUE, !.ref = "README.md"],
                           [NoText EXCEPT !.at = TRUE, !.ref = "l"],
                           [NoText EXCEPT !.at = TRUE, !.ref = "../../out/f"],
                           [NoText EXCEPT !.at = TRUE, !.ref = "missing.md"]},
          changelog \in {BaseManifest.changelog,
                         [NoText EXCEPT !.at = TRUE, !.ref = "l"]},
          target \in {<<"out", "f">>, inside, CodeDir \o <<"icon.png">>, <<"gone">>,
                      CodeDir \o <<"shot.png">>},
          readme \in {plain.doc, [lines |-> <<"text">>,
                                  inl |-> <<[k |-> "html", sub |-> "none",
                                             url |-> "plain"]>>]},
          s \in BOOLEAN :
          /\ readme # plain.doc => description.ref = "README.md"
          /\ icon # "" => /\ screenshots = <<"shot.png">>
                          /\ description = plain
                          /\ changelog = BaseManifest.changelog
                          /\ target = inside
          /\ Constructed([BaseManifest EXCEPT !.screenshots = screenshots,
                                              !.icon = icon,
                                              !.description = description,
                                              !.changelog = changelog],
                         Args(yml, TRUE, FALSE, s),
                         Repo(AppTree(<<>>, <<[BaseApp EXCEPT !.fap_icon = Str(fap_icon)]>>,
                                      target, readme),
                              TRUE, TRUE),
                         "unset", {})
    \* the targets declared and the fields reconciled with them
    \/ \E apps \in { <<>>, <<[BaseApp EXCEPT !.apptype = "Plugin"]>>, <<BaseApp>>,
                     <<[BaseApp EXCEPT !.fap_icon = NoneV]>>,
                     <<BaseApp, [BaseApp EXCEPT !.appid = Str("other")]>>,
                     <<[BaseApp EXCEPT !.appid = Str("other"), !.name = Str("Other")],
                       [BaseApp EXCEPT !.apptype = "Plugin", !.appid = Str("my-app")],
                       BaseApp>>,
                     <<[BaseApp EXCEPT !.appid = Str("other")],
                       [BaseApp EXCEPT !.appid = Str("third")]>> },
          id \in {"app", "", "my-app", "other"},
          author \in {"", "me"},
          version \in {"0.1", "1.0"},
          e \in {"unset", "1"},
          p \in { yml, <<"applications", "Tools", "app", "manifest.yml">>,
                  <<"applications", "Games", "app", "manifest.yml">>,
                  <<"applications", "Tools", "other", "manifest.yml">>,
                  <<"applications", "Tools", "app", "m.yml">>,
                  <<"applications", "Tools">> } :
          Constructed([BaseManifest EXCEPT !.id = id, !.author = author,
                                           !.version = version],
                      Args(p, TRUE, TRUE, TRUE),
                      Repo(AppTree(<<>>, apps, inside, plain.doc), TRUE, TRUE),
                      e, {})
    \* the identifiers the value check meets: the target's, written in the
    \* manifest too or left for the reconciliation to fill in; the JSON copy
    \* asked for, and the temporary directory whose tree cannot be removed
    \/ \E appid \in {"app", "My-App", "my-app", "app\n", ""},
          given \in BOOLEAN, s \in BOOLEAN,
          json \in {<<>>, <<"out", "m.json">>, <<"gone", "m.json">>, <<"out">>},
          stuck \in {{}, {"_tmp_dir"}, {"_tmp_code_dir"}} :
          Constructed([BaseManifest EXCEPT !.id = IF given THEN appid ELSE ""],
                      [Args(yml, TRUE, TRUE, s) EXCEPT !.json = json],
                      Repo(AppTree(<<>>, <<[BaseApp EXCEPT !.appid = Str(appid)]>>,
                                   inside, plain.doc),
                           TRUE, TRUE),
                      "unset", stuck)

Next ==
    \/ FetchSources
    \/ LintSources
    \/ BuildSources
    \/ UpdateManifestFromFap
    \/ CheckManifestPath
    \/ ProcessIncludes
    \/ ProcessAssets
    \/ CheckManifestValues
    \/ BuildPackage
    \/ WriteManifestJson
    \/ Cleanup
    \/ Finalize

Spec == Init /\ [][Next]_vars

(***************************************************************************)
(* SpecLife: a run of Main.process from the call of _load that ends the    *)
(* constructor to the exit of the interpreter.  The program is sequential  *)
(* and every handler returns or raises, so the step that is enabled is     *)
(* taken; the finalizers run at the latest when the interpreter exits.     *)
(***************************************************************************)
\* AppBundler._load, the last statement of __init__: an exception leaves
\* the constructor, so the with statement of Main.process is not entered
Load ==
    /\ pc = "load"
    /\ \E at \in {Walk(fs, <<>>, args.manifest_yaml_path, MaxLinkDepth)} :
       \E err \in {IF ~at.ok THEN "ManifestNotFound"
                   ELSE IF Kind(fs, at.at) # "file" THEN "IsADirectoryError"
                   ELSE IF fs[at.at].c.t # "yaml" THEN "YAML"
                   ELSE "none"} :
          /\ manifest' = IF err = "none" THEN fs[at.at].c.v ELSE manifest
          /\ manifest0' = manifest'
          /\ res' = [NoRes EXCEPT !.err = err]
          /\ pc' = IF err = "none" THEN "fetch" ELSE "init_failed"
    /\ UNCHANGED <<fs, path, fam, env, calls, img, asset, doc, args, repo, hist,
                   zip, tmp,
                   drv, known_apps, app_manifests>>

\* __init__ at the call of _load (line 227): both temporary directories and
\* "assets" are made, the manifest file is a file of the caller's
InitLife ==
    \E file \in {"absent", "dir", "text", "ok", "nosha", "quote"},
       skip \in BOOLEAN, lint \in BOOLEAN, build \in BOOLEAN,
       json \in {<<>>, <<"out", "m.json">>, <<"gone", "m.json">>},
       stuck \in {{}, {"_tmp_dir"}, {"_tmp_code_dir"}} :
       /\ skip => lint /\ build
       /\ pc = "load"
       /\ manifest = NoManifest
       /\ manifest0 = NoManifest
       /\ fam = NoApp
       /\ env = "unset"
       /\ calls = 0
       /\ args = [manifest_yaml_path |-> <<"manifest.yml">>, skip_lint |-> skip,
                  skip_build |-> skip, skip_source_code |-> FALSE, json |-> json]
       /\ repo = [tree |-> AppTree(<<>>, <<BaseApp>>, CodeDir \o <<"README.md">>,
                                   BaseManifest.description.doc),
                  commits |-> {BaseManifest.sourcecode.commit_sha},
                  lint |-> lint, build |-> build]
       /\ hist = <<>>
       /\ zip = [made |-> FALSE, names |-> {}]
       /\ tmp = [attached |-> {"_tmp_dir", "_tmp_code_dir"}, stuck |-> stuck]
       /\ res = NoRes
       /\ path = <<>>
       /\ fs = [p \in {q \in {<<"manifest.yml">>} : file # "absent"} |->
                   CASE file = "dir" -> Dir
                     [] file = "text" -> FileOf([t |-> "text", v |-> NoDoc])
                     [] file = "ok" -> FileOf([t |-> "yaml", v |-> BaseManifest])
                     [] file = "nosha" ->
                          FileOf([t |-> "yaml",
                                  v |-> [BaseManifest EXCEPT !.sourcecode.commit_sha = ""]])
                     [] file = "quote" ->
                          FileOf([t |-> "yaml",
                                  v |-> [BaseManifest EXCEPT
                                           !.description.doc.lines = <<"quote">>]])]
               @@ (<<>> :> Dir) @@ (TmpPath :> Dir) @@ (AssetsDir :> Dir)
               @@ (TmpCodePath :> Dir) @@ (<<"out">> :> Dir)
       /\ AssetIdle
       /\ ToolsIdle

NextLife ==
    \/ Load
    \/ Next

SpecLife == InitLife /\ [][NextLife]_vars /\ WF_vars(NextLife)

C3_InputErrorsBeforeClone ==
    (/\ pc # "fetch"
     /\ \/ manifest.sourcecode.type # "git"
        \/ manifest.sourcecode.commit_sha = ""
        \/ Len(manifest.sourcecode.commit_sha) # 40)
    => /\ res.err \in {"UnknownType", "NoCommitSha", "CommitShaLength"}
       /\ TmpCodePath \notin DOMAIN hist


\* the identifier is a non-empty string of lower-case letters, digits and
\* underscores
IsAppId(s) ==
    /\ Chars(s) # <<>>
    /\ \A i \in DOMAIN Chars(s) :
          Chars(s)[i] \in { "a", "b", "c", "d", "e", "f", "g", "h", "i", "j", "k", "l",
                           "m", "n", "o", "p", "q", "r", "s", "t", "u", "v", "w", "x",
                           "y", "z", "0", "1", "2", "3", "4", "5", "6", "7", "8", "9",
                           "_" }

\* C12: whenever the value check is reached with an identifier that is not
\* a non-empty string of [a-z0-9_], it fails with the manifest-values error
\* and the archive is not assembled.
C12_IdFormatEnforced ==
    [][pc = "values" /\ ~IsAppId(manifest.id)
          => pc' = "failed" /\ res'.err = "ManifestValues" /\ ~zip'.made]_vars


\* C13: on every run, whatever way the pipeline is left (normal completion,
\* a failing stage, a failing manifest load in the constructor, a failing
\* JSON copy, a failing first cleanup step), the sandbox root and the clone
\* directory are eventually both removed.
C13_TempDirsRemoved ==
    <>(TmpPath \notin DOMAIN fs /\ TmpCodePath \notin DOMAIN fs)


\* the stages of bundle() in the order of the claim, the path check of the
\* manifest counted with the reconciliation it follows
Stage(p) ==
    CASE p = "fetch" -> 1
      [] p = "lint" -> 2
      [] p = "build" -> 3
      [] p \in {"update", "check_path"} -> 4
      [] p = "includes" -> 5
      [] p = "assets" -> 6
      [] p = "values" -> 7
      [] p = "package" -> 8
      [] OTHER -> 9

\* the stage that follows stage n when it succeeds, given the options
After(n) ==
    IF n = 1 /\ ~args.skip_lint THEN 2
    ELSE IF n <= 2 /\ ~args.skip_build THEN 3
    ELSE IF n <= 3 THEN 4
    ELSE n + 1

\* C14: bundle() runs FETCH, LINT (unless skipped), BUILD (unless skipped),
\* RECONCILE, CONTENT_CHECK, ASSET_CHECK, VALUE_CHECK and ASSEMBLE in this
\* order, each at most once and only after the stage before it succeeded;
\* it returns only after ASSEMBLE succeeded; after a failure no stage runs.
C14_StageOrder ==
    [][/\ Stage(pc) <= 8 /\ pc' # pc =>
            \/ pc' = "failed" /\ res'.err # "none"
            \/ /\ res'.err = "none"
               /\ Stage(pc') = IF pc = "update" THEN 4 ELSE After(Stage(pc))
               /\ Stage(pc') = 9 => pc' \in {"done", "json"}
       /\ pc' \in {"done", "json"} /\ pc' # pc => pc \in {"package", "json"}
       /\ pc = "failed" => Stage(pc') = 9 /\ pc' \notin {"done", "json"}
       /\ pc' = "lint" => ~args.skip_lint
       /\ pc' = "build" => ~args.skip_build]_vars

\* a run that linted, built and went through every stage to the end
C14_Witness ==
    /\ pc = "done"
    /\ ~args.skip_lint /\ ~args.skip_build
    /\ zip.made
    /\ Exists(fs, CodeDir \o <<"dist", "app.fap">>)


\* the failures raised as BundlerException
BundlerExceptions ==
    { "UnknownType", "NoCommitSha", "CommitShaLength", "CodeTraversal", "LintFailed",
      "BuildFailed", "NoApplicationManifest", "NoExternalApps", "MultipleApps",
      "Conflict", "TypeMismatch", "InvalidManifestPath", "ManifestName", "PathAppId",
      "PathCategory", "NotFound", "Traversal", "IconResolution",
      "ScreenshotResolution", "NoScreenshots", "ManifestValues", "Markdown" }

\* C15: whenever a stage of bundle() fails, the exception that leaves it is
\* a BundlerException, the only kind Main.process turns into exit status 1.
C15_FailuresAreBundlerExceptions ==
    [][Stage(pc) <= 8 /\ pc' = "failed" => res'.err \in BundlerExceptions]_vars


\* the archive name of the sandbox path p
EntryName(p) == AsPosix(SubSeq(p, Len(TmpPath) + 1, Len(p)))

\* p lies in the sandbox, below no folder that is hidden or called "dist",
\* and is not hidden itself
Archivable(p) ==
    /\ IsRelativeTo(p, TmpPath) /\ Len(p) > Len(TmpPath)
    /\ \A i \in (Len(TmpPath) + 1)..Len(p) : ~IsHidden(p[i])
    /\ \A i \in (Len(TmpPath) + 1)..(Len(p) - 1) : p[i] # "dist"

\* C16: in the archive of a run that went through _build_package, every
\* entry is the sandbox-relative name of a sandbox path with no hidden
\* component and no "dist" folder above it, none lies under code/ when
\* skip_source_code is set, and every regular file of the sandbox that is
\* not excluded this way (manifest.yml, the assets) is an entry.
C16_ArchiveExclusions ==
    pc \in {"done", "json"} =>
        /\ zip.made
        /\ \A n \in zip.names : \E p \in DOMAIN fs : Archivable(p) /\ n = EntryName(p)
        /\ \A p \in DOMAIN fs :
              /\ IsRelativeTo(p, TmpPath) /\ Len(p) > Len(TmpPath)
              /\ Kind(fs, p) = "file"
              => (EntryName(p) \in zip.names <=> Archivable(p))
        /\ args.skip_source_code =>
              \A p \in DOMAIN fs : ~(IsRelativeTo(p, CodeDir) /\ Len(p) > Len(CodeDir))
        /\ {"manifest.yml", "assets/icon.png"} \subseteq zip.names

\* an archive made with the source code, from a sandbox that holds hidden
\* files, a hidden folder and the build's "dist" folder
C16_Witness ==
    /\ pc = "done"
    /\ ~args.skip_source_code
    /\ "code/icon.png" \in zip.names
    /\ Kind(fs, CodeDir \o <<"dist", "app.fap">>) = "file"
    /\ Kind(fs, CodeDir \o <<".git", "HEAD">>) = "file"
    /\ Kind(fs, CodeDir \o <<".gitignore">>) = "file"


\* the applications application.fam declares, the EXTERNAL ones among them
\* and those of them that carry the manifest's id
Declared == fs[CodeDir \o <<"application.fam">>].c.v

Candidates == {i \in DOMAIN Declared : Declared[i].apptype = "External"}

IdMatches == {i \in Candidates : Declared[i].appid = Str(manifest.id)}

IsCommitId(s) == s = "0123456789abcdef0123456789abcdef01234567"

\* C18: the fetch stage goes on to the checkout and succeeds only for a
\* commit_sha of exactly 40 hexadecimal characters; for every other value
\* (none, empty, shorter, longer, 40 characters that are not all
\* hexadecimal) it fails with one of the two revision errors.
C18_RevisionPinned ==
    [][pc = "fetch" /\ manifest.sourcecode.type = "git"
       => /\ res'.err = "none" => IsCommitId(manifest.sourcecode.commit_sha)
          /\ ~IsCommitId(manifest.sourcecode.commit_sha)
                => res'.err \in {"NoCommitSha", "CommitShaLength"}]_vars


\* the tool of the stage named role was run
Invoked(h, role) ==
    \E p \in DOMAIN h : \E i \in DOMAIN h[p] : h[p][i] = [op |-> "run", role |-> role]

\* C21: a lint or build tool that exits with a non-zero status fails the
\* pipeline with an error whose message holds what the tool wrote to stdout
\* and to stderr; with skip_lint (skip_build) set the lint (build) tool is
\* not run.
C21_ToolErrors ==
    [][/\ pc = "lint" => /\ (pc' = "failed" <=> ~repo.lint)
                         /\ ~repo.lint => res'.at = "stdout+stderr"
       /\ pc = "build" => /\ (pc' = "failed" <=> ~repo.build)
                          /\ ~repo.build => res'.at = "stdout+stderr"
       /\ args.skip_lint => ~Invoked(hist', "lint")
       /\ args.skip_build => ~Invoked(hist', "build")]_vars


\* C22: when a stage of bundle() fails, the failure in the middle of the
\* archive walk included, no archive, whole or partial, is left at the
\* destination by the run; an archive is there only once bundle() returned.
C22_AllOrNothing ==
    [][/\ Stage(pc) <= 8 /\ pc' = "failed" => ~zip'.made
       /\ zip'.made /\ ~zip.made => pc' \in {"done", "json"}]_vars


\* the text of the file that the "@" value v names under the code directory
Included(v) == fs[Resolve(fs, JoinPath(CodeDir, v.ref))].c.v

\* C23: a changelog or description that begins with "@" is replaced by the
\* contents of the file it names under the code directory, which has passed
\* the path check; a value without "@" is left as it is; the grammar check
\* runs on the expanded text of both fields, and the assembly is reached
\* only when both have passed it.
C23_IncludeThenCheck ==
    [][/\ pc = "includes" /\ pc' = "assets" =>
            \A f \in {"changelog", "description"} :
                IF manifest[f].at
                THEN /\ ValidatePath(fs, JoinPath(CodeDir, manifest[f].ref)) = "ok"
                     /\ manifest'[f] = [NoText EXCEPT !.doc = Included(manifest[f])]
                ELSE manifest'[f] = manifest[f]
       /\ pc = "values" =>
            /\ ~manifest.changelog.at /\ ~manifest.description.at
            /\ pc' = "package" =>
                  /\ CheckMarkdown(manifest.changelog.doc) = "none"
                  /\ CheckMarkdown(manifest.description.doc) = "none"]_vars

\* a finished run whose changelog and description were both included
\* from files
C23_Witness ==
    /\ pc = "done"
    /\ manifest0.description.at /\ manifest0.changelog.at
    /\ manifest.description = BaseManifest.description
    /\ ~manifest.changelog.at

\* C25: when a subdir is given and the checkout succeeded, the fetch goes on
\* only if clone_root/subdir resolves, '..' and symlinks followed, inside the
\* clone root, and the code directory then holds exactly that subtree; a
\* subdir that resolves outside fails the fetch with the path-traversal
\* error and leaves nothing at the code directory.
C25_SubdirContained ==
    [][/\ pc = "fetch"
       /\ manifest.sourcecode.subdir # ""
       /\ manifest.sourcecode.type = "git"
       /\ manifest.sourcecode.commit_sha \in repo.commits
       /\ Len(manifest.sourcecode.commit_sha) = 40
       => \E cloned \in {Cloned(fs, repo.tree)} :
          \E root \in {Resolve(cloned, JoinPath(TmpCodePath, manifest.sourcecode.subdir))} :
             IF IsRelativeTo(root, TmpCodePath)
             THEN pc' # "failed" =>
                    /\ \A q \in DOMAIN cloned :
                          IsRelativeTo(q, root) =>
                            /\ CodeDir \o SubSeq(q, Len(root) + 1, Len(q)) \in DOMAIN fs'
                            /\ fs'[CodeDir \o SubSeq(q, Len(root) + 1, Len(q))] = cloned[q]
                    /\ \A p \in DOMAIN fs' :
                          IsRelativeTo(p, CodeDir) =>
                            root \o SubSeq(p, Len(CodeDir) + 1, Len(p)) \in DOMAIN cloned
             ELSE /\ pc' = "failed"
                  /\ res'.err = "CodeTraversal"
                  /\ \A p \in DOMAIN fs' : ~IsRelativeTo(p, CodeDir)
                  /\ fs' = cloned]_vars

\* a symlinked subdir that leads out of the clone root was refused
C25_Witness ==
    /\ pc = "failed"
    /\ res.err = "CodeTraversal"
    /\ manifest.sourcecode.subdir = "l"
    /\ <<"out", "f">> \in DOMAIN fs
    /\ \A p \in DOMAIN fs : ~IsRelativeTo(p, CodeDir)

\* C26: when _process_assets succeeds the manifest's icon is
\* 'assets/icon.png', the list of screenshots it was given was not empty, the
\* new list has its length and order with element i equal to
\* 'assets/screenshots/<i><extension of the original>', and every path
\* recorded names a file that resolves inside the sandbox.
C26_AssetPostcondition ==
    [][pc = "assets" /\ pc' = "values" =>
         /\ manifest'.icon = "assets/icon.png"
         /\ ValidatePath(fs', AssetsDir \o <<"icon.png">>) = "ok"
         /\ manifest.screenshots # <<>>
         /\ Len(manifest'.screenshots) = Len(manifest.screenshots)
         /\ \A i \in 1..Len(manifest.screenshots) :
              \E name \in {IntStr(i - 1) \o Ext(manifest.screenshots[i])} :
                 /\ manifest'.screenshots[i] = "assets/screenshots/" \o name
                 /\ ValidatePath(fs', AssetsDir \o <<"screenshots", name>>) = "ok"
                 /\ Kind(fs', AssetsDir \o <<"screenshots", name>>) = "file"]_vars

\* two screenshots, the first named through a symlink without extension, were
\* staged in the order given
C26_Witness ==
    /\ pc = "values"
    /\ manifest0.screenshots = <<"l", "shot.png">>
    /\ manifest.screenshots = <<"assets/screenshots/0", "assets/screenshots/1.png">>
    /\ manifest.icon = "assets/icon.png"

\* C28: the icon validated, transformed and packaged is the file that
\* fap_icon of the selected target names under the code directory, never the
\* one the manifest's icon field names, also when that field was non-empty
\* and differed from fap_icon; the field then becomes 'assets/icon.png'.
C28_IconFromTarget ==
    [][pc = "assets" =>
         \E src \in {JoinPath(CodeDir, fam.fap_icon.v)} :
            /\ \A p \in DOMAIN hist' :
                  \A i \in 1..Len(hist'[p]) : hist'[p][i].role = "icon" => p = src
            /\ pc' = "values" =>
                  /\ src \in DOMAIN hist'
                  /\ \E i \in 1..Len(hist'[src]) :
                        hist'[src][i] = [op |-> "accept", role |-> "icon"]
                  /\ \E i \in 1..Len(hist'[src]) :
                        hist'[src][i] = [op |-> "open", role |-> "icon"]
                  /\ fs'[AssetsDir \o <<"icon.png">>].c.v
                        = ProcessIcon(ReadFile(fs, src, "image").v).out
                  /\ manifest'.icon = "assets/icon.png"]_vars

\* the manifest named another picture than the target and the run was
\* packaged with the target's icon
C28_Witness ==
    /\ pc = "done"
    /\ manifest0.icon = "shot.png"
    /\ fam.fap_icon = Str("icon.png")
    /\ manifest.icon = "assets/icon.png"
    /\ fs[AssetsDir \o <<"icon.png">>].c.v.w = 10
    /\ "assets/icon.png" \in zip.names

(***************************************************************************)
(* SpecBuild: Main.main of tools/build.py, from the builder and the        *)
(* uploader it constructs to the value it returns or the exception that    *)
(* leaves it.  The server and the build tool answer as they please.        *)
(***************************************************************************)
\* what BundleBuilder.build raises besides BundleBuildError: requests.get,
\* raise_for_status, ZipFile, from_yaml_file, the decoding of the tool's
\* output, the missing artifact
BuildErrors ==
    {"ConnectionError", "HTTPError", "BadZipFile", "ParseError",
     "UnicodeDecodeError", "FileNotFoundError"}

\* what ArtifactUploader.upload raises: open, requests.post, process_response
UploadErrors == {"OSError", "ConnectionError", "UploadError"}

\* what ArtifactUploader.report_error raises: requests.post, process_response
ReportErrors == {"ConnectionError", "UploadError"}

\* what 'ufbt faps' left on a stream: nothing or some text
Streams == {"", "text"}

\* --gh-run-id: the default 0, or the id of a run
RunIds == {0, 7}

\* ArtifactUploader.report_error(error_log): the request posted to
\* upload_url + FAILURE_URL_SUFFIX, with the run id when there is one
ReportError(d, error_log) ==
    [d EXCEPT !.reports = Append(@, [url |-> "/status/fail",
                                     params |-> IF d.run_id # 0
                                                THEN {"github_run_id", "logs"}
                                                ELSE {"logs"},
                                     logs |-> error_log])]

InitBuild ==
    /\ pc = "main"
    /\ \E id \in RunIds : drv = [NoRun EXCEPT !.run_id = id]
    /\ known_apps = <<>>
    /\ app_manifests = <<>>
    /\ res = NoRes
    /\ fs = <<>>
    /\ path = <<>>
    /\ SyncIdle
    /\ AssetIdle
    /\ args = [manifest_yaml_path |-> <<>>, skip_lint |-> FALSE,
               skip_build |-> FALSE, skip_source_code |-> FALSE, json |-> <<>>]
    /\ repo = [tree |-> <<>>, commits |-> {}, lint |-> TRUE, build |-> TRUE]
    /\ hist = <<>>
    /\ zip = [made |-> FALSE, names |-> {}]
    /\ tmp = [attached |-> {}, stuck |-> {}]

\* fap_path = builder.build()
Build ==
    /\ pc = "main"
    /\ \/ /\ pc' = "built"
          /\ drv' = [drv EXCEPT !.built = TRUE]
       \/ \E out \in Streams, err \in Streams :
             /\ pc' = "except"
             /\ drv' = [drv EXCEPT !.exc = "BundleBuildError", !.stdout = out,
                                   !.stderr = err]
       \/ \E e \in BuildErrors :
             /\ pc' = "except"
             /\ drv' = [drv EXCEPT !.exc = e]
    /\ UNCHANGED <<fs, path, res, manifest, manifest0, fam, env, calls, img, asset,
                   doc, args, repo, hist, zip, tmp, known_apps, app_manifests>>

\* uploader.upload(fap_path); return 0
Upload ==
    /\ pc = "built"
    /\ \/ /\ pc' = "returned"
          /\ drv' = [drv EXCEPT !.uploads = @ + 1, !.ret = 0]
       \/ \E e \in UploadErrors :
             /\ pc' = "except"
             /\ drv' = [drv EXCEPT !.uploads = @ + 1, !.exc = e]
    /\ UNCHANGED <<fs, path, res, manifest, manifest0, fam, env, calls, img, asset,
                   doc, args, repo, hist, zip, tmp, known_apps, app_manifests>>

\* the end of a handler that called report_error: return 1 when the call
\* returned; an exception raised inside an except clause is not matched
\* against the other clauses of the try statement and leaves main
Reported(d, outcome) ==
    IF outcome = "ok"
    THEN /\ pc' = "returned"
         /\ drv' = [d EXCEPT !.caught = d.exc, !.exc = "none", !.ret = 1]
    ELSE /\ pc' = "raised"
         /\ drv' = [d EXCEPT !.caught = d.exc, !.exc = outcome]

\* except BundleBuildError as e
ExceptBundleBuildError ==
    /\ pc = "except"
    /\ drv.exc = "BundleBuildError"
    /\ \E outcome \in {"ok"} \cup ReportErrors :
          Reported(ReportError(drv, [stdout |-> drv.stdout, stderr |-> drv.stderr]),
                   outcome)
    /\ UNCHANGED <<fs, path, res, manifest, manifest0, fam, env, calls, img, asset,
                   doc, args, repo, hist, zip, tmp, known_apps, app_manifests>>

\* except UploadError as e
ExceptUploadError ==
    /\ pc = "except"
    /\ drv.exc = "UploadError"
    /\ pc' = "returned"
    /\ drv' = [drv EXCEPT !.caught = drv.exc, !.exc = "none", !.ret = 1]
    /\ UNCHANGED <<fs, path, res, manifest, manifest0, fam, env, calls, img, asset,
                   doc, args, repo, hist, zip, tmp, known_apps, app_manifests>>

\* except Exception as e
ExceptException ==
    /\ pc = "except"
    /\ drv.exc \notin {"BundleBuildError", "UploadError"}
    /\ \E outcome \in {"ok"} \cup ReportErrors :
          Reported(ReportError(drv, [str |-> drv.exc]), outcome)
    /\ UNCHANGED <<fs, path, res, manifest, manifest0, fam, env, calls, img, asset,
                   doc, args, repo, hist, zip, tmp, known_apps, app_manifests>>

NextBuild ==
    \/ Build
    \/ Upload
    \/ ExceptBundleBuildError
    \/ ExceptUploadError
    \/ ExceptException

\* main runs to its end: every step of it is taken once it can be
SpecBuild == InitBuild /\ [][NextBuild]_vars /\ WF_vars(NextBuild)

\* main has returned or an exception has left it
MainOver == pc \in {"returned", "raised"}

\* the clauses of the driver that do not depend on what report_error does:
\* 0 is returned exactly after a build and an upload that succeeded, an
\* upload is attempted once and only after a successful build, and
\* report_error is called at most once, exactly for a failure that is not
\* an UploadError, with the two streams of a BundleBuildError or the
\* message of another exception
DriverSafety ==
    /\ drv.uploads <= 1
    /\ drv.uploads = 1 => drv.built
    /\ Len(drv.reports) <= 1
    /\ MainOver =>
          /\ drv.ret = 0 <=> (drv.built /\ drv.uploads = 1 /\ drv.caught = "none")
          /\ drv.ret = 0 => pc = "returned"
          /\ pc = "returned" => drv.ret \in {0, 1}
          /\ Len(drv.reports) = 1 <=> drv.caught \notin {"none", "UploadError"}
          /\ drv.caught = "BundleBuildError" =>
                drv.reports[1].logs = [stdout |-> drv.stdout, stderr |-> drv.stderr]
          /\ drv.caught \notin {"none", "UploadError", "BundleBuildError"} =>
                drv.reports[1].logs = [str |-> drv.caught]

\* C29: main always comes to an end by returning 0 or 1, also when
\* report_error itself fails; it returns 0 exactly when build and upload
\* both succeeded, and 1 otherwise.
C29_MainReturns ==
    <>(pc = "returned" /\ drv.ret \in {0, 1})

(***************************************************************************)
(* SpecApps: AppManager.load_manifest called again and again on one        *)
(* manager, with declaration files that are absent, that fail while they   *)
(* are executed, or that declare up to MaxApps applications.               *)
(***************************************************************************)
AppIds == {"a", "b"}

AppTypes == {"External", "Plugin"}

\* the applications a call App(appid=..., apptype=...) of a file declares
Declarations ==
    {[DefaultApp EXCEPT !.appid = Str(i), !.apptype = t] : i \in AppIds, t \in AppTypes}

\* applications declared by one file, at most
MaxApps == 2

\* load_manifest calls on one manager, at most
MaxLoads == 2

\* the lists of at most n declarations
RECURSIVE FilesUpTo(_)
FilesUpTo(n) ==
    IF n = 0 THEN {<<>>}
    ELSE LET shorter == FilesUpTo(n - 1) IN
         shorter \cup {Append(f, a) : f \in shorter, a \in Declarations}

\* a registry in which the last declaration of an appid wins
AddKnownAppReplace(known, app) ==
    [known |-> (app.appid.v :> app) @@ known, err |-> "none"]

\* AppManager._add_known_app: an entry is a dataclass instance, which is
\* truthy, so known_apps.get(appid, None) is truthy exactly when the key is
\* there
AddKnownApp(known, app) ==
    IF app.appid.v \in DOMAIN known
    THEN [known |-> known, err |-> "FlipperManifestException"]
    ELSE [known |-> (app.appid.v :> app) @@ known, err |-> "none"]

\* for app in app_manifests: self._add_known_app(app), from the i-th on
RECURSIVE AddAll(_, _, _)
AddAll(known, apps, i) ==
    IF i > Len(apps) THEN [known |-> known, err |-> "none"]
    ELSE With(AddKnownApp(known, apps[i]), LAMBDA r :
            IF r.err # "none" THEN r ELSE AddAll(r.known, apps, i + 1))

InitApps ==
    /\ pc = "apps"
    /\ known_apps = <<>>
    /\ app_manifests = <<>>
    /\ drv = NoRun
    /\ res = NoRes
    /\ fs = <<>>
    /\ path = <<>>
    /\ SyncIdle
    /\ AssetIdle
    /\ args = [manifest_yaml_path |-> <<>>, skip_lint |-> FALSE,
               skip_build |-> FALSE, skip_source_code |-> FALSE, json |-> <<>>]
    /\ repo = [tree |-> <<>>, commits |-> {}, lint |-> TRUE, build |-> TRUE]
    /\ hist = <<>>
    /\ zip = [made |-> FALSE, names |-> {}]
    /\ tmp = [attached |-> {}, stuck |-> {}]

\* AppManager.load_manifest(app_manifest_path, app_dir_node).  file: the
\* path names nothing, or exec raises after the declarations made so far,
\* or exec runs to its end.
LoadManifest ==
    /\ pc = "apps"
    /\ calls < MaxLoads
    /\ \E file \in {"absent", "raises", "runs"} :
       \E declared \in FilesUpTo(MaxApps) :
       \E r \in {IF file = "absent" THEN [known |-> known_apps, at |-> "not found"]
                 ELSE IF file = "raises" THEN [known |-> known_apps, at |-> "parse"]
                 ELSE IF Len(declared) = 0 THEN [known |-> known_apps, at |-> "malformed"]
                 ELSE With(AddAll(known_apps, declared, 1), LAMBDA added :
                        [known |-> added.known,
                         at |-> IF added.err = "none" THEN "" ELSE "duplicate"])} :
           /\ file = "absent" => declared = <<>>
           /\ known_apps' = r.known
           /\ app_manifests' = declared
           /\ res' = [NoRes EXCEPT
                        !.err = IF r.at = "" THEN "none" ELSE "FlipperManifestException",
                        !.at = r.at]
    /\ calls' = calls + 1
    /\ UNCHANGED <<pc, fs, path, manifest, manifest0, fam, env, img, asset, doc,
                   args, repo, hist, zip, tmp, drv>>

NextApps == LoadManifest

SpecApps == InitApps /\ [][NextApps]_vars

\* the first declaration of the list whose appid is registered already, in
\* known or by a declaration before it; Len(apps) + 1 when there is none
FirstDuplicate(known, apps) ==
    LET dup == {i \in 1..Len(apps) :
                  \/ apps[i].appid.v \in DOMAIN known
                  \/ \E j \in 1..(i - 1) : apps[j].appid.v = apps[i].appid.v}
    IN  IF dup = {} THEN Len(apps) + 1 ELSE CHOOSE i \in dup : \A j \in dup : i <= j

\* C30: after every load_manifest call each key of known_apps maps to one
\* application with that appid; an entry is never replaced; a file whose
\* execution declares an appid that is registered already makes the call
\* raise FlipperManifestException, with the applications declared before
\* the duplicate registered and none from it on; a file that declares no
\* application raises and leaves known_apps unchanged.
C30_Registry ==
    [][pc = "apps" =>
         /\ \A k \in DOMAIN known_apps' : known_apps'[k].appid.v = k
         /\ \A k \in DOMAIN known_apps :
               k \in DOMAIN known_apps' /\ known_apps'[k] = known_apps[k]
         /\ app_manifests' = <<>> =>
               /\ res'.err = "FlipperManifestException"
               /\ known_apps' = known_apps
         /\ res'.at \notin {"not found", "parse"} /\ app_manifests' # <<>> =>
               \E d \in {FirstDuplicate(known_apps, app_manifests')} :
                  /\ d <= Len(app_manifests') <=>
                        res'.err = "FlipperManifestException"
                  /\ DOMAIN known_apps' =
                        DOMAIN known_apps
                        \cup {app_manifests'[j].appid.v : j \in 1..(d - 1)}
                  /\ \A j \in 1..(d - 1) :
                        known_apps'[app_manifests'[j].appid.v] = app_manifests'[j]]_vars

\* a file declared b and then a, which an earlier file had registered as an
\* External application: the call raised, b is registered and a is the
\* application of the earlier file
C30_Witness ==
    /\ res.at = "duplicate"
    /\ calls = 2
    /\ Len(app_manifests) = 2
    /\ app_manifests[1].appid.v = "b"
    /\ app_manifests[2].appid.v = "a" /\ app_manifests[2].apptype = "Plugin"
    /\ DOMAIN known_apps = {"a", "b"}
    /\ known_apps["a"].apptype = "External"
    /\ known_apps["b"] = app_manifests[1]

====
